---- MODULE Spec2Model ----
(***************************************************************************)
(* Model of the indicator core of the Bollinger-band stock monitor         *)
(* (src/js/charts.js, module Indicators), of the series it is fed          *)
(* (src/unnamed/part_001, _parse) and of the correlation of the watched    *)
(* stocks (src/js/app.js, _pearson and _calcCorrelations).                 *)
(*                                                                         *)
(* Numbers.  The program computes with IEEE doubles.  The correlation code *)
(* is modelled with doubles, every operation rounded as the program rounds *)
(* it (section IEEE 754 doubles).  The indicator core is modelled          *)
(* with exact rationals [n |-> numerator, d |-> denominator], d > 0, kept  *)
(* in lowest terms, and with exact square roots (a standard deviation is   *)
(* kept as the square root of a rational until toFixed rounds it).  The    *)
(* JavaScript null is the record Null (d = 0).  toFixed(k) is modelled as  *)
(* what it does: rounding to k decimals, halves away from zero.  Arrays    *)
(* are sequences; the source's 0-based index i is element i + 1, read      *)
(* with At(arr, i).                                                        *)
(*                                                                           *)
(* The page around the core.  Each part of the page has its own variables    *)
(* and its own specification: the tabs of the two stores (SpecTabs), the     *)
(* settings table shared by the clients (SpecSettings), fetchStock and its   *)
(* retries (SpecFetch), the worker pool of fetchMultipleFast (SpecPool),     *)
(* moveStocks (SpecMove), the interval buttons (SpecSwitch) and the preview  *)
(* (SpecPreview).  The program runs on one thread: the code of a handler up  *)
(* to its first await is one step, and each continuation after an await is   *)
(* a step of its own, taken when the awaited request has been answered.      *)
(***************************************************************************)
EXTENDS Integers, Sequences, FiniteSets, TLC

(* ------------------------------------------------------------------ *)
(* Numbers                                                            *)
(* ------------------------------------------------------------------ *)

Null == [n |-> 0, d |-> 0]

IsNull(x) == x.d = 0

Abs(i) == IF i < 0 THEN -i ELSE i

Max2(a, b) == IF a >= b THEN a ELSE b

RECURSIVE Gcd(_, _)
Gcd(a, b) == IF b = 0 THEN a ELSE Gcd(b, a % b)

\* The rational n/d (d # 0) in lowest terms with a positive denominator.
Rat(n, d) ==
  LET g == Gcd(Abs(n), Abs(d))
      s == IF d < 0 THEN -1 ELSE 1
  IN  [n |-> s * (n \div g), d |-> s * (d \div g)]

Num(i) == [n |-> i, d |-> 1]

Zero == Num(0)

Add(x, y) ==
  LET g == Gcd(x.d, y.d)
  IN  Rat(x.n * (y.d \div g) + y.n * (x.d \div g), (x.d \div g) * y.d)

Neg(x) == [n |-> -x.n, d |-> x.d]

Sub(x, y) == Add(x, Neg(y))

Mul(x, y) ==
  LET a == Rat(x.n, y.d)
      b == Rat(y.n, x.d)
  IN  [n |-> a.n * b.n, d |-> a.d * b.d]

\* x / y for y # 0 (every division of the modelled code is guarded).
Div(x, y) == Mul(x, Rat(y.d, y.n))

Lt(x, y) ==
  LET g == Gcd(x.d, y.d)
  IN  x.n * (y.d \div g) < y.n * (x.d \div g)

Le(x, y) == ~Lt(y, x)

\* JavaScript's relational operators convert null to 0.
ToNumber(x) == IF IsNull(x) THEN Zero ELSE x

Floor(x) == x.n \div x.d

RECURSIVE Pow10(_)
Pow10(k) == IF k = 0 THEN 1 ELSE 10 * Pow10(k - 1)

\* Number.prototype.toFixed(k) followed by parseFloat: the decimal with k
\* digits nearest to x, the larger magnitude on a tie.
toFixed(x, k) ==
  LET m == Abs(x.n) * Pow10(k)
      q == (2 * m + x.d) \div (2 * x.d)
  IN  Rat((IF x.n < 0 THEN -q ELSE q), Pow10(k))

\* Math.sqrt, kept exact: the value is the square root of the rational sq.
Sqrt(v) == [sq |-> v]

RECURSIVE IsqrtIn(_, _, _)
IsqrtIn(m, lo, hi) ==
  IF hi - lo <= 1 THEN lo
  ELSE LET mid == (lo + hi) \div 2
       IN  IF mid * mid <= m THEN IsqrtIn(m, mid, hi) ELSE IsqrtIn(m, lo, mid)

\* The integer part of the square root of the natural number m (below 2^31,
\* so the root is below 46341).
Isqrt(m) == IsqrtIn(m, 0, IF m < 46340 THEN m + 1 ELSE 46341)

\* a + b * sqrt(v) >= c, decided exactly.
SurdGE(a, b, v, c) ==
  IF b.n >= 0
  THEN Le(c, a) \/ Le(Mul(Sub(c, a), Sub(c, a)), Mul(Mul(b, b), v))
  ELSE Le(c, a) /\ Le(Mul(Mul(b, b), v), Mul(Sub(c, a), Sub(c, a)))

RECURSIVE RoundUp(_, _, _, _, _)
RoundUp(a, b, v, k, n) ==
  IF SurdGE(a, b, v, Rat(2 * n + 1, 2 * Pow10(k)))
  THEN RoundUp(a, b, v, k, n + 1)
  ELSE n

\* The integer part of |b| * sqrt(v) * 10^k.
surdFloor(b, v, k) == Isqrt(Floor(Mul(Mul(Mul(b, b), v), Num(Pow10(2 * k)))))

\* A lower estimate of (a + b * sqrt(v)) * 10^k, rounded, for a non-negative sum.
surdGuess(a, b, v, k) ==
  Max2(0, Floor(Mul(a, Num(Pow10(k))))
          + (IF b.n >= 0 THEN surdFloor(b, v, k) ELSE -(surdFloor(b, v, k) + 1)))

\* The decimal with k digits nearest to a + b * sqrt(v) >= 0.
roundSurd(a, b, v, k) == Rat(RoundUp(a, b, v, k, surdGuess(a, b, v, k)), Pow10(k))

\* (a + b * s).toFixed(k) followed by parseFloat, for s a square root.
toFixedSum(a, b, s, k) ==
  IF SurdGE(a, b, s.sq, Zero)
  THEN roundSurd(a, b, s.sq, k)
  ELSE Neg(roundSurd(Neg(a), Neg(b), s.sq, k))

(* ------------------------------------------------------------------ *)
(* Sequences with the source's 0-based indices                        *)
(* ------------------------------------------------------------------ *)

At(arr, i) == arr[i + 1]

\* Array.prototype.slice(from, to) for 0 <= from <= to <= length.
slice(arr, from, to) == SubSeq(arr, from + 1, to)

\* The sum of arr[lo..hi], halving the range (the sum of exact rationals does
\* not depend on the order of the additions).
RECURSIVE SumRange(_, _, _)
SumRange(arr, lo, hi) ==
  IF lo > hi THEN Zero
  ELSE IF lo = hi THEN arr[lo]
  ELSE LET mid == (lo + hi) \div 2
       IN  Add(SumRange(arr, lo, mid), SumRange(arr, mid + 1, hi))

\* arr.reduce((s, v) => s + v, 0)
SumSeq(arr) == SumRange(arr, 1, Len(arr))

\* The array of length n whose element i (0-based) is f[i + 1], built once.
Array(f, n) == SubSeq(f, 1, n)

someNull(arr) == \E j \in 1..Len(arr) : IsNull(arr[j])

\* arr[arr.length - 1]
last(arr) == arr[Len(arr)]

(* ------------------------------------------------------------------ *)
(* Statistics primitives                                              *)
(* ------------------------------------------------------------------ *)

mean(arr) ==
  IF Len(arr) = 0 THEN Zero ELSE Div(SumSeq(arr), Num(Len(arr)))

\* arr.reduce((s, v) => s + (v - m) ** 2, 0) / arr.length
varianceAbout(arr, m) ==
  Div(SumSeq([j \in 1..Len(arr) |-> Mul(Sub(arr[j], m), Sub(arr[j], m))]),
      Num(Len(arr)))

variance(arr) == varianceAbout(arr, mean(arr))

stdDev(arr) ==
  IF Len(arr) < 2 THEN Sqrt(Zero) ELSE Sqrt(variance(arr))

(* ------------------------------------------------------------------ *)
(* Bollinger bands                                                    *)
(* ------------------------------------------------------------------ *)

NullBand == [upper |-> Null, middle |-> Null, lower |-> Null]

\* bandOf with the two outer bands exchanged.
bandOfSwapped(window, mult) ==
  [upper  |-> toFixedSum(mean(window), Neg(mult), stdDev(window), 2),
   middle |-> toFixed(mean(window), 2),
   lower  |-> toFixedSum(mean(window), mult, stdDev(window), 2)]

\* The band object both bollingerBands and latestBB build from a window.
\* The band around the mean ma with the standard deviation sd.
bandAround(ma, sd, mult) ==
  [upper  |-> toFixedSum(ma, mult, sd, 2),
   middle |-> toFixed(ma, 2),
   lower  |-> toFixedSum(ma, Neg(mult), sd, 2)]

bandOf(window, mult) == bandAround(mean(window), stdDev(window), mult)

\* bollingerBands with the warm-up one bar too long (i < period).
bollingerBandsLate(closes, period, mult) ==
  Array([j \in 1..Len(closes) |->
           LET i == j - 1
           IN  IF i < period THEN NullBand
               ELSE bandOf(slice(closes, i - period + 1, i + 1), mult)],
        Len(closes))

bollingerBands(closes, period, mult) ==
  Array([j \in 1..Len(closes) |->
           LET i == j - 1
           IN  IF i < period - 1 THEN NullBand
               ELSE bandOf(slice(closes, i - period + 1, i + 1), mult)],
        Len(closes))

\* latestBB without the fallback: null whenever the series is shorter than the period.
latestBBNoFallback(closes, period, mult) ==
  IF Len(closes) < period THEN Null
  ELSE last(bollingerBands(closes, period, mult))

\* A null result of latestBB is the record Null; a band is a record of three
\* fields (NullBand when all three are null).
latestBB(closes, period, mult) ==
  IF Len(closes) < period
  THEN IF Len(closes) < 2 THEN Null ELSE bandOf(closes, mult)
  ELSE last(bollingerBands(closes, period, mult))

\* Clamp01 with nothing clamped.
Unclamped(x) == x

Clamp01(x) == IF Lt(x, Zero) THEN Zero ELSE IF Lt(Num(1), x) THEN Num(1) ELSE x

\* The position of the price in a band of positive width `range`.
ratioIn(currentPrice, lower, range) ==
  Clamp01(toFixed(Div(Sub(currentPrice, lower), range), 4))

bbRatio(currentPrice, upper, lower) ==
  IF Le(Sub(upper, lower), Zero) THEN Rat(1, 2)
  ELSE ratioIn(currentPrice, lower, Sub(upper, lower))

\* lowerRatio: the position of the price between the lower band and the
\* middle, 1 when that range is not positive.
lowerRatioOver(currentPrice, lower, lowerRange) ==
  IF Lt(Zero, lowerRange) THEN Div(Sub(currentPrice, lower), lowerRange) ELSE Num(1)

\* levelOf with the two-star threshold inclusive (lowerRatio <= 0.25).
levelOfInclusive(ratio, lowerRatio) ==
  IF Le(Rat(1, 2), ratio) THEN [level |-> 0, label |-> "normal", ratio |-> ratio]
  ELSE IF Le(lowerRatio, Rat(25, 100))
       THEN [level |-> 2, label |-> "near lower band", ratio |-> ratio]
  ELSE IF Lt(lowerRatio, Rat(55, 100))
       THEN [level |-> 1, label |-> "approaching lower band", ratio |-> ratio]
  ELSE [level |-> 0, label |-> "below middle", ratio |-> ratio]

\* The returns of alertLevel, from the band ratio and the lower ratio.
levelOf(ratio, lowerRatio) ==
  IF Le(Rat(1, 2), ratio) THEN [level |-> 0, label |-> "normal", ratio |-> ratio]
  ELSE IF Lt(lowerRatio, Rat(25, 100))
       THEN [level |-> 2, label |-> "near lower band", ratio |-> ratio]
  ELSE IF Lt(lowerRatio, Rat(55, 100))
       THEN [level |-> 1, label |-> "approaching lower band", ratio |-> ratio]
  ELSE [level |-> 0, label |-> "below middle", ratio |-> ratio]

\* alertLevel measuring the lower ratio over the whole band (upper - lower).
alertLevelWholeBand(currentPrice, upper, middle, lower) ==
  levelOf(bbRatio(currentPrice, upper, lower),
          lowerRatioOver(currentPrice, lower, Sub(upper, lower)))

\* alertLevel with the two-star threshold inclusive (lowerRatio <= 0.25).
alertLevelInclusive(currentPrice, upper, middle, lower) ==
  levelOfInclusive(bbRatio(currentPrice, upper, lower),
                   lowerRatioOver(currentPrice, lower, Sub(middle, lower)))

alertLevel(currentPrice, upper, middle, lower) ==
  levelOf(bbRatio(currentPrice, upper, lower),
          lowerRatioOver(currentPrice, lower, Sub(middle, lower)))

(* ------------------------------------------------------------------ *)
(* Ease of Movement                                                   *)
(* ------------------------------------------------------------------ *)

\* A signal slot holds "BUY", "SELL" or the JavaScript null.
NoSignal == "null"

\* Step 1 of eom: the raw value of bar i >= 1 (bar 0 keeps null).
\* dm / br when br is not 0.
easeOf(dm, br) == IF br # Zero THEN Div(dm, br) ELSE Zero

\* The raw value of the bar c that follows the bar p.
eomStep(c, p) ==
  IF Sub(c.high, c.low) = Zero \/ c.volume = Zero THEN Zero
  ELSE easeOf(Sub(Div(Add(c.high, c.low), Num(2)), Div(Add(p.high, p.low), Num(2))),
              Div(c.volume, Sub(c.high, c.low)))

eomRaw(candles, i) == eomStep(At(candles, i), At(candles, i - 1))

\* The mean of a window, null when the window holds a null.
meanNoNull(w) == IF someNull(w) THEN Null ELSE mean(w)

\* smaNoNull starting one index late.
smaNoNullLate(src, period, from) ==
  Array([j \in 1..Len(src) |->
           LET i == j - 1
           IN  IF i < from + 1 THEN Null
               ELSE meanNoNull(slice(src, i - period + 1, i + 1))],
        Len(src))

\* Steps 2 and 3 of eom: the moving average of the trailing `period` entries
\* of src, from index `from` on and only over windows that hold no null.
smaNoNull(src, period, from) ==
  Array([j \in 1..Len(src) |->
           LET i == j - 1
           IN  IF i < from THEN Null
               ELSE meanNoNull(slice(src, i - period + 1, i + 1))],
        Len(src))

\* crossOf with the zero-line tests ahead of the signal-line tests.
crossOfZeroFirst(e, s, ep, sp) ==
  IF IsNull(ep) \/ IsNull(sp) THEN NoSignal
  ELSE IF Lt(ep, Zero) /\ Le(Zero, e) THEN "BUY"
  ELSE IF Le(Zero, ep) /\ Lt(e, Zero) THEN "SELL"
  ELSE IF Le(ep, sp) /\ Lt(s, e) THEN "BUY"
  ELSE IF Le(sp, ep) /\ Lt(e, s) THEN "SELL"
  ELSE NoSignal

\* The if / else-if chain over the lines of a bar (e, s) and of the bar
\* before it (ep, sp).
crossOf(e, s, ep, sp) ==
  IF IsNull(ep) \/ IsNull(sp) THEN NoSignal
  ELSE IF Le(ep, sp) /\ Lt(s, e) THEN "BUY"
  ELSE IF Le(sp, ep) /\ Lt(e, s) THEN "SELL"
  ELSE IF Lt(ep, Zero) /\ Le(Zero, e) THEN "BUY"
  ELSE IF Le(Zero, ep) /\ Lt(e, Zero) THEN "SELL"
  ELSE NoSignal

\* eomCross with the zero-line tests ahead of the signal-line tests.
eomCrossZeroFirst(eomArr, sigArr, i) ==
  IF IsNull(At(eomArr, i)) \/ IsNull(At(sigArr, i)) \/ i = 0 THEN NoSignal
  ELSE crossOfZeroFirst(At(eomArr, i), At(sigArr, i), At(eomArr, i - 1), At(sigArr, i - 1))

\* Step 4 of eom: the signal of bar i.
eomCross(eomArr, sigArr, i) ==
  IF IsNull(At(eomArr, i)) \/ IsNull(At(sigArr, i)) \/ i = 0 THEN NoSignal
  ELSE crossOf(At(eomArr, i), At(sigArr, i), At(eomArr, i - 1), At(sigArr, i - 1))

\* The raw values of the series (bar 0 keeps null).
eomRawArr(candles) ==
  Array([j \in 1..Len(candles) |-> IF j = 1 THEN Null ELSE eomRaw(candles, j - 1)],
        Len(candles))

\* The result rows of eom, from the EOM line and its signal line.
eomRows(eomArr, sigArr) ==
  Array([j \in 1..Len(eomArr) |->
           [eom |-> eomArr[j], signal |-> sigArr[j],
            crossSignal |-> eomCross(eomArr, sigArr, j - 1)]], Len(eomArr))

\* Steps 3 and 4 of eom, from the EOM line.
eomSignals(eomArr, period, signal) ==
  eomRows(eomArr, smaNoNull(eomArr, signal, period + signal - 1))

eom(candles, period, signal) ==
  eomSignals(smaNoNull(eomRawArr(candles), period, period), period, signal)

(* ------------------------------------------------------------------ *)
(* RSI                                                                *)
(* ------------------------------------------------------------------ *)

gainOf(diff) == IF Lt(Zero, diff) THEN diff ELSE Zero

lossOf(diff) == IF Lt(diff, Zero) THEN Neg(diff) ELSE Zero

diffAt(closes, i) == Sub(At(closes, i), At(closes, i - 1))

RECURSIVE PowRat(_, _)
PowRat(x, k) == IF k = 0 THEN Num(1) ELSE Mul(x, PowRat(x, k - 1))

\* x * f^k, not computing the power when x is 0.
Scaled(x, f, k) == IF x = Zero THEN Zero ELSE Mul(x, PowRat(f, k))

\* The pair avgGain, avgLoss is kept as [gain, loss, k], standing for
\* gain * f^k and loss * f^k with f = (period - 1) / period > 0: a step with
\* no price change multiplies both averages by f, and the exact values stay
\* small.  The value stored in out[i] reads the zero tests and the quotient
\* avgGain / avgLoss, which the common factor f^k leaves unchanged.
\* rsiValue with the two zero tests in the other order.
rsiValueGainFirst(avg) ==
  IF avg.gain = Zero THEN Zero
  ELSE IF avg.loss = Zero THEN Num(100)
  ELSE toFixed(Sub(Num(100), Div(Num(100), Add(Num(1), Div(avg.gain, avg.loss)))), 2)

rsiValue(avg) ==
  IF avg.loss = Zero THEN Num(100)
  ELSE IF avg.gain = Zero THEN Zero
  ELSE toFixed(Sub(Num(100), Div(Num(100), Add(Num(1), Div(avg.gain, avg.loss)))), 2)

\* The initial averages: the simple average of the first `period` differences.
rsiSeed(closes, period) ==
  [gain |-> Div(SumSeq([i \in 1..period |-> gainOf(diffAt(closes, i))]), Num(period)),
   loss |-> Div(SumSeq([i \in 1..period |-> lossOf(diffAt(closes, i))]), Num(period)),
   k    |-> 0]

\* One step of Wilder smoothing: avg = (avg * (period - 1) + x) / period.
rsiStep(prev, diff, period) ==
  IF diff = Zero /\ period > 1
  THEN [prev EXCEPT !.k = @ + 1]
  ELSE LET f == Rat(period - 1, period)
       IN  [gain |-> Add(Scaled(prev.gain, f, prev.k + 1), Div(gainOf(diff), Num(period))),
            loss |-> Add(Scaled(prev.loss, f, prev.k + 1), Div(lossOf(diff), Num(period))),
            k    |-> 0]

\* The smoothing loop: avgs holds the averages of the indices period..i-1.
RECURSIVE rsiSmooth(_, _, _, _)
rsiSmooth(closes, period, i, avgs) ==
  IF i >= Len(closes) THEN avgs
  ELSE rsiSmooth(closes, period, i + 1,
                 Append(avgs, rsiStep(avgs[Len(avgs)], diffAt(closes, i), period)))

\* rsi with the neutral value 50 in place of null.
rsiNeutral(closes, period) ==
  LET n == Len(closes)
  IN  IF n < period + 1 THEN [j \in 1..n |-> Num(50)]
      ELSE LET avgs == rsiSmooth(closes, period, period + 1, <<rsiSeed(closes, period)>>)
           IN  Array([j \in 1..n |->
                        IF j - 1 < period THEN Num(50) ELSE rsiValue(avgs[j - period])], n)

rsi(closes, period) ==
  LET n == Len(closes)
  IN  IF n < period + 1 THEN [j \in 1..n |-> Null]
      ELSE LET avgs == rsiSmooth(closes, period, period + 1, <<rsiSeed(closes, period)>>)
           IN  Array([j \in 1..n |->
                        IF j - 1 < period THEN Null ELSE rsiValue(avgs[j - period])], n)

(* ------------------------------------------------------------------ *)
(* Slow stochastic                                                    *)
(* ------------------------------------------------------------------ *)

MinLow(w) == CHOOSE x \in {w[j].low : j \in 1..Len(w)} :
               \A y \in {w[j].low : j \in 1..Len(w)} : Le(x, y)

MaxHigh(w) == CHOOSE x \in {w[j].high : j \in 1..Len(w)} :
                \A y \in {w[j].high : j \in 1..Len(w)} : Le(y, x)

\* fastKOf with 0 in place of 50 for a window of range 0.
fastKOfZero(close, lo, hi) ==
  IF Sub(hi, lo) = Zero THEN Zero
  ELSE toFixed(Mul(Div(Sub(close, lo), Sub(hi, lo)), Num(100)), 2)

\* Fast %K of a close in the range lo..hi.
fastKOf(close, lo, hi) ==
  IF Sub(hi, lo) = Zero THEN Num(50)
  ELSE toFixed(Mul(Div(Sub(close, lo), Sub(hi, lo)), Num(100)), 2)

\* Fast %K of the last bar of the window w.
fastKIn(w) == fastKOf(last(w).close, MinLow(w), MaxHigh(w))

stochFastK(candles, k1, i) == fastKIn(slice(candles, i - k1 + 1, i + 1))

\* The mean of a window to 2 decimals, null when the window holds a null.
roundedMeanNoNull(w) == IF someNull(w) THEN Null ELSE toFixed(mean(w), 2)

\* Slow %K and slow %D: the rounded moving average of the trailing `period`
\* entries of src, from index `from` on and only over windows with no null.
smaRounded(src, period, from) ==
  Array([j \in 1..Len(src) |->
           LET i == j - 1
           IN  IF i < from THEN Null
               ELSE roundedMeanNoNull(slice(src, i - period + 1, i + 1))],
        Len(src))

\* The fast %K line of the series.
fastKArr(candles, k1) ==
  Array([j \in 1..Len(candles) |-> IF j - 1 < k1 - 1 THEN Null
                                    ELSE stochFastK(candles, k1, j - 1)], Len(candles))

\* The result rows of stochastic, from its three lines.
stochRows(fastK, slowK, slowD) ==
  Array([j \in 1..Len(fastK) |->
           [fastK |-> fastK[j], slowK |-> slowK[j], slowD |-> slowD[j]]], Len(fastK))

\* Slow %D and the result, from fast %K and slow %K.
stochSlowD(fastK, slowK, k1, k2, d) ==
  stochRows(fastK, slowK, smaRounded(slowK, d, k1 + k2 + d - 3))

\* Slow %K and the rest, from fast %K.
stochSlow(fastK, k1, k2, d) ==
  stochSlowD(fastK, smaRounded(fastK, k2, k1 + k2 - 2), k1, k2, d)

stochastic(candles, k1, k2, d) == stochSlow(fastKArr(candles, k1), k1, k2, d)

(* ------------------------------------------------------------------ *)
(* RSI + stochastic signal                                            *)
(* ------------------------------------------------------------------ *)

\* prevSt && prevSt.slowK !== null && prevSt.slowK <= prevSt.slowD && st.slowK > st.slowD
\* (prevSt.slowD is not tested for null: the comparison reads a null as 0).
kCrossUp(stochArr, i) ==
  /\ i > 0
  /\ ~IsNull(At(stochArr, i - 1).slowK)
  /\ Le(At(stochArr, i - 1).slowK, ToNumber(At(stochArr, i - 1).slowD))
  /\ Lt(At(stochArr, i).slowD, At(stochArr, i).slowK)

kCrossDown(stochArr, i) ==
  /\ i > 0
  /\ ~IsNull(At(stochArr, i - 1).slowK)
  /\ Le(ToNumber(At(stochArr, i - 1).slowD), At(stochArr, i - 1).slowK)
  /\ Lt(At(stochArr, i).slowK, At(stochArr, i).slowD)

\* The signal of bar i: the two assignments of the source in turn, the
\* second (SELL) replacing the first.
rsiStochSignal(rsiArr, stochArr, i, ob, os) ==
  IF IsNull(At(rsiArr, i)) \/ IsNull(At(stochArr, i).slowK) \/ IsNull(At(stochArr, i).slowD)
  THEN NoSignal
  ELSE IF /\ Lt(Num(50), At(rsiArr, i))
          /\ Lt(Num(ob - 10), At(stochArr, i).slowK)
          /\ kCrossDown(stochArr, i)
       THEN "SELL"
  ELSE IF /\ Lt(At(rsiArr, i), Num(50))
          /\ Lt(At(stochArr, i).slowK, Num(os + 10))
          /\ kCrossUp(stochArr, i)
       THEN "BUY"
  ELSE NoSignal

\* The result rows of rsiStoch, from the RSI and the stochastic lines.
rsiStochRows(rsiArr, stochArr, ob, os) ==
  Array([j \in 1..Len(rsiArr) |->
           [rsi |-> rsiArr[j], slowK |-> stochArr[j].slowK, slowD |-> stochArr[j].slowD,
            signal |-> rsiStochSignal(rsiArr, stochArr, j - 1, ob, os)]], Len(rsiArr))

rsiStoch(closes, candles, opts) ==
  rsiStochRows(rsi(closes, opts.rsiPeriod),
               stochastic(candles, opts.k1, opts.k2, opts.d), opts.ob, opts.os)

(* ------------------------------------------------------------------ *)
(* analyze and analyzeAll                                             *)
(* ------------------------------------------------------------------ *)

\* The defaults of bollingerBands and latestBB (mult) and of analyzeAll
\* (bbPeriod), and the parameters analyzeAll passes to eom and rsiStoch.
DefaultMult == 2

DefaultBBPeriod == 20

EomPeriod == 14

EomSignalPeriod == 14

RsiPeriod == 14

StochK1 == 14

StochK2 == 3

StochD == 3

Overbought == 80

Oversold == 20

\* allCandles.length > candleCount ? allCandles.slice(-candleCount) : allCandles
periodCandles(allCandles, candleCount) ==
  IF Len(allCandles) > candleCount
  THEN slice(allCandles, Len(allCandles) - candleCount, Len(allCandles))
  ELSE allCandles

\* arr[bi]?.field ?? null: the entry of index bi, or one whose fields are
\* null when arr has no such index.
AtOrNull(arr, bi, nulls) == IF bi \in 0..(Len(arr) - 1) THEN At(arr, bi) ELSE nulls

NullEom == [eom |-> Null, signal |-> Null, crossSignal |-> NoSignal]

NullRsiStoch == [rsi |-> Null, slowK |-> Null, slowD |-> Null, signal |-> NoSignal]

\* The index with no offset: the display window read from index 0.
offsetIndexFromZero(stockData, i) == i

\* The index of bar i of the display window in the arrays over the full series.
offsetIndex(stockData, i) == Len(stockData.allCandles) - Len(stockData.candles) + i

\* { ...c, bbUpper, bbMiddle, bbLower } for the band b of the candle c.
withBB(c, b) ==
  [candle |-> c, bbUpper |-> b.upper, bbMiddle |-> b.middle, bbLower |-> b.lower]

\* candles.map((c, i) => ...) of analyze.
candlesWithBB(stockData, allBands) ==
  Array([j \in 1..Len(stockData.candles) |->
           withBB(stockData.candles[j],
                  AtOrNull(allBands, offsetIndex(stockData, j - 1), NullBand))],
        Len(stockData.candles))

\* latest ? alertLevel(currentPrice, ...) : { level: 0, label: '--', ratio: 0.5 }
alertOf(currentPrice, latest) ==
  IF latest # Null
  THEN alertLevel(currentPrice, latest.upper, latest.middle, latest.lower)
  ELSE [level |-> 0, label |-> "--", ratio |-> Rat(1, 2)]

\* What analyze returns, from the bands of the full series and the latest band.
analysisOf(stockData, allBands, latest) ==
  [bb            |-> latest,
   alert         |-> alertOf(stockData.currentPrice, latest),
   candlesWithBB |-> candlesWithBB(stockData, allBands)]

analyze(stockData, period) ==
  analysisOf(stockData,
             bollingerBands(stockData.closes, period, Num(DefaultMult)),
             latestBB(stockData.closes, period, Num(DefaultMult)))

\* { ...c, eom, eomSignal, eomCross, rsi, slowK, slowD, rsiStSignal } for the
\* rows e of eom and r of rsiStoch.
withIndicators(c, e, r) ==
  [candle      |-> c.candle,
   bbUpper     |-> c.bbUpper,
   bbMiddle    |-> c.bbMiddle,
   bbLower     |-> c.bbLower,
   eom         |-> e.eom,
   eomSignal   |-> e.signal,
   eomCross    |-> e.crossSignal,
   rsi         |-> r.rsi,
   slowK       |-> r.slowK,
   slowD       |-> r.slowD,
   rsiStSignal |-> r.signal]

\* base.candlesWithBB.map((c, i) => ...) of analyzeAll.
candlesWithIndicators(stockData, withBands, eomAll, rsStAll) ==
  Array([j \in 1..Len(withBands) |->
           withIndicators(withBands[j],
                          AtOrNull(eomAll, offsetIndex(stockData, j - 1), NullEom),
                          AtOrNull(rsStAll, offsetIndex(stockData, j - 1), NullRsiStoch))],
        Len(withBands))

\* { ...base, candlesWithBB: candlesWithIndicators }
analysisAllOf(stockData, base, eomAll, rsStAll) ==
  [base EXCEPT !.candlesWithBB =
     candlesWithIndicators(stockData, base.candlesWithBB, eomAll, rsStAll)]

analyzeAll(stockData, bbPeriod) ==
  analysisAllOf(stockData,
                analyze(stockData, bbPeriod),
                eom(stockData.allCandles, EomPeriod, EomSignalPeriod),
                rsiStoch(stockData.closes, stockData.allCandles,
                         [rsiPeriod |-> RsiPeriod, k1 |-> StochK1, k2 |-> StochK2,
                          d |-> StochD, ob |-> Overbought, os |-> Oversold]))

(* ------------------------------------------------------------------ *)
(* IEEE 754 doubles                                                   *)
(* ------------------------------------------------------------------ *)

\* The correlation code is modelled with the program's own arithmetic: a
\* Number is a double [s, m, e] of value (-1)^s * m * 2^e whose significand
\* m has exactly 53 bits (or is 0), and every operation rounds its exact
\* result to the nearest double, ties to even.  A significand is a natural
\* number held as limbs of LimbBits bits, the least significant first, with
\* no leading zero limb (0 is the empty sequence).  The exponent range is
\* not modelled: no value of the model comes near its ends.
LimbBits == 15

LimbBase == 32768

SignificandBits == 53

RECURSIVE Pow2(_)
Pow2(k) == IF k = 0 THEN 1 ELSE 2 * Pow2(k - 1)

RECURSIVE BitLen(_)
BitLen(x) == IF x = 0 THEN 0 ELSE 1 + BitLen(x \div 2)

Limb(a, i) == IF i >= 1 /\ i <= Len(a) THEN a[i] ELSE 0

RECURSIVE BTrim(_)
BTrim(a) ==
  IF Len(a) > 0 /\ a[Len(a)] = 0 THEN BTrim(SubSeq(a, 1, Len(a) - 1)) ELSE a

BOne == <<1>>

\* The natural number i < 2^30 as limbs.
BNat(i) == BTrim(<<i % LimbBase, i \div LimbBase>>)

RECURSIVE BAddFrom(_, _, _, _, _)
BAddFrom(a, b, i, c, acc) ==
  IF i > Len(a) /\ i > Len(b) THEN (IF c = 0 THEN acc ELSE Append(acc, c))
  ELSE BAddFrom(a, b, i + 1, (Limb(a, i) + Limb(b, i) + c) \div LimbBase,
                Append(acc, (Limb(a, i) + Limb(b, i) + c) % LimbBase))

BAdd(a, b) == BAddFrom(a, b, 1, 0, <<>>)

\* a - b for a >= b.
RECURSIVE BSubFrom(_, _, _, _, _)
BSubFrom(a, b, i, c, acc) ==
  IF i > Len(a) THEN BTrim(acc)
  ELSE BSubFrom(a, b, i + 1, (IF a[i] - Limb(b, i) - c < 0 THEN 1 ELSE 0),
                Append(acc, (a[i] - Limb(b, i) - c + LimbBase) % LimbBase))

BSub(a, b) == BSubFrom(a, b, 1, 0, <<>>)

RECURSIVE BCmpFrom(_, _, _)
BCmpFrom(a, b, i) ==
  IF i = 0 THEN 0
  ELSE IF a[i] > b[i] THEN 1
  ELSE IF a[i] < b[i] THEN -1
  ELSE BCmpFrom(a, b, i - 1)

\* -1, 0 or 1 as a < b, a = b or a > b.
BCmp(a, b) ==
  IF Len(a) > Len(b) THEN 1
  ELSE IF Len(a) < Len(b) THEN -1
  ELSE BCmpFrom(a, b, Len(a))

RECURSIVE BMulLimbFrom(_, _, _, _, _)
BMulLimbFrom(a, d, i, c, acc) ==
  IF i > Len(a) THEN (IF c = 0 THEN acc ELSE Append(acc, c))
  ELSE BMulLimbFrom(a, d, i + 1, (a[i] * d + c) \div LimbBase,
                    Append(acc, (a[i] * d + c) % LimbBase))

BMulLimb(a, d) == IF d = 0 THEN <<>> ELSE BMulLimbFrom(a, d, 1, 0, <<>>)

BShlLimbs(a, n) == IF Len(a) = 0 THEN a ELSE [i \in 1..n |-> 0] \o a

RECURSIVE BMulFrom(_, _, _, _)
BMulFrom(a, b, j, acc) ==
  IF j > Len(b) THEN acc
  ELSE BMulFrom(a, b, j + 1, BAdd(acc, BShlLimbs(BMulLimb(a, b[j]), j - 1)))

BMul(a, b) == BMulFrom(a, b, 1, <<>>)

\* a * 2^n
BShl(a, n) == BShlLimbs(BMulLimb(a, Pow2(n % LimbBits)), n \div LimbBits)

\* floor(a / p) for p = 2^r, r < LimbBits.
BShrBits(a, p) ==
  BTrim(SubSeq([i \in 1..Len(a) |->
                  (a[i] \div p) + (Limb(a, i + 1) % p) * (LimbBase \div p)], 1, Len(a)))

\* floor(a / 2^n)
BShr(a, n) ==
  IF n \div LimbBits >= Len(a) THEN <<>>
  ELSE BShrBits(SubSeq(a, (n \div LimbBits) + 1, Len(a)), Pow2(n % LimbBits))

BBitLen(a) == IF Len(a) = 0 THEN 0 ELSE (Len(a) - 1) * LimbBits + BitLen(a[Len(a)])

BOdd(a) == Len(a) > 0 /\ a[1] % 2 = 1

FZero == [s |-> 0, m |-> <<>>, e |-> 0]

IsZero(x) == Len(x.m) = 0

\* The double of significand q (53 or 54 bits after a round up) and exponent e.
FPack(s, q, e) ==
  IF BBitLen(q) > SignificandBits THEN [s |-> s, m |-> BShr(q, 1), e |-> e + 1]
  ELSE [s |-> s, m |-> q, e |-> e]

\* Round to nearest, ties to even: q is the significand cut to 53 bits, c
\* compares what was cut off with half a unit of q (sticky: more was cut off
\* below it).
FRoundUp(s, q, e, c, sticky) ==
  IF c > 0 \/ (c = 0 /\ (sticky \/ BOdd(q))) THEN FPack(s, BAdd(q, BOne), e)
  ELSE [s |-> s, m |-> q, e |-> e]

FRoundCut(s, mag, e, sticky, shift, q) ==
  FRoundUp(s, q, e + shift, BCmp(BSub(mag, BShl(q, shift)), BShl(BOne, shift - 1)), sticky)

FRoundLen(s, mag, e, sticky, len) ==
  IF len = 0 THEN FZero
  ELSE IF len <= SignificandBits
       THEN [s |-> s, m |-> BShl(mag, SignificandBits - len), e |-> e - (SignificandBits - len)]
  ELSE FRoundCut(s, mag, e, sticky, len - SignificandBits, BShr(mag, len - SignificandBits))

\* The double nearest to (-1)^s * (mag + t) * 2^e, where 0 < t < 1 when
\* sticky and t = 0 otherwise (sticky only with mag of 55 bits or more).
FRound(s, mag, e, sticky) == FRoundLen(s, mag, e, sticky, BBitLen(mag))

\* The double of the integer i, |i| < 2^30.
FInt(i) == FRound((IF i < 0 THEN 1 ELSE 0), BNat(IF i < 0 THEN -i ELSE i), 0, FALSE)

FNeg(x) == IF IsZero(x) THEN x ELSE [x EXCEPT !.s = 1 - @]

FAbs(x) == [x EXCEPT !.s = 0]

\* The sum of two magnitudes on a common exponent e.
FAddMag(sx, mx, sy, my, e, c) ==
  IF sx = sy THEN FRound(sx, BAdd(mx, my), e, FALSE)
  ELSE IF c = 0 THEN FZero
  ELSE IF c > 0 THEN FRound(sx, BSub(mx, my), e, FALSE)
  ELSE FRound(sy, BSub(my, mx), e, FALSE)

FAddAligned(sx, mx, sy, my, e) == FAddMag(sx, mx, sy, my, e, BCmp(mx, my))

FAddAt(x, y, e) == FAddAligned(x.s, BShl(x.m, x.e - e), y.s, BShl(y.m, y.e - e), e)

\* x + y
FAdd(x, y) ==
  IF IsZero(x) THEN y
  ELSE IF IsZero(y) THEN x
  ELSE FAddAt(x, y, IF x.e < y.e THEN x.e ELSE y.e)

\* x - y
FSub(x, y) == FAdd(x, FNeg(y))

\* x * y
FMul(x, y) ==
  IF IsZero(x) \/ IsZero(y) THEN FZero
  ELSE FRound((x.s + y.s) % 2, BMul(x.m, y.m), x.e + y.e, FALSE)

\* Long division in limbs, the divisor d holding DivLimbs limbs with the top
\* one at least LimbBase / 2.  The next limb of the quotient of r * LimbBase
\* by d (r < d) is at most the estimate made from the top limbs and at least
\* the estimate less 2.
DivLimbs == 4

DivEstimate(r, d) ==
  IF (Limb(r, DivLimbs) * LimbBase + Limb(r, DivLimbs - 1)) \div d[DivLimbs] >= LimbBase
  THEN LimbBase - 1
  ELSE (Limb(r, DivLimbs) * LimbBase + Limb(r, DivLimbs - 1)) \div d[DivLimbs]

RECURSIVE DivDigit(_, _, _)
DivDigit(rb, d, digit) ==
  IF BCmp(BMulLimb(d, digit), rb) > 0 THEN DivDigit(rb, d, digit - 1) ELSE digit

\* q * LimbBase + digit
BPush(q, digit) == IF Len(q) = 0 /\ digit = 0 THEN q ELSE <<digit>> \o q

FDivDigit(st, d, rb, digit) ==
  [q |-> BPush(st.q, digit), r |-> BSub(rb, BMulLimb(d, digit)), k |-> st.k - 1]

\* One step: the next limb of the quotient q, k limbs being left to find.
FDivStep(st, d) ==
  FDivDigit(st, d, BShlLimbs(st.r, 1), DivDigit(BShlLimbs(st.r, 1), d, DivEstimate(st.r, d)))

RECURSIVE FDivLimbs(_, _)
FDivLimbs(st, d) == IF st.k = 0 THEN st ELSE FDivLimbs(FDivStep(st, d), d)

\* The quotient of n by d to DivLimbs limbs after the point, for n < 2 * d.
FDivFrom(n, d) ==
  IF BCmp(n, d) >= 0 THEN FDivLimbs([q |-> BOne, r |-> BSub(n, d), k |-> DivLimbs], d)
  ELSE FDivLimbs([q |-> <<>>, r |-> n, k |-> DivLimbs], d)

\* The significands are scaled to fill the top limb.
DivScale == DivLimbs * LimbBits - SignificandBits

\* The double nearest to the quotient or root qr.q, inexact when a remainder is left.
FRoundRem(s, qr, e) == FRound(s, qr.q, e, Len(qr.r) # 0)

\* x / y for y # 0
FDiv(x, y) ==
  IF IsZero(x) THEN FZero
  ELSE FRoundRem((x.s + y.s) % 2, FDivFrom(BShl(x.m, DivScale), BShl(y.m, DivScale)),
                 x.e - y.e - DivLimbs * LimbBits)

\* One step of the integer square root, digit by digit: q is the root found
\* so far, r what is left of the number, bit the power of 4 under test.
FSqrtStep(st) ==
  IF BCmp(st.r, BAdd(st.q, st.bit)) >= 0
  THEN [q |-> BAdd(BShr(st.q, 1), st.bit), r |-> BSub(st.r, BAdd(st.q, st.bit)),
        bit |-> BShr(st.bit, 2)]
  ELSE [q |-> BShr(st.q, 1), r |-> st.r, bit |-> BShr(st.bit, 2)]

RECURSIVE FSqrtBits(_)
FSqrtBits(st) == IF Len(st.bit) = 0 THEN st ELSE FSqrtBits(FSqrtStep(st))

SqrtBits == 110

\* Math.sqrt(x) for x > 0: the root of m * 2^k with e - k even.
FSqrtAt(x, k) ==
  FRoundRem(0, FSqrtBits([q |-> <<>>, r |-> BShl(x.m, k), bit |-> BShl(BOne, SqrtBits)]),
            (x.e - k) \div 2)

FSqrt(x) ==
  IF IsZero(x) THEN FZero
  ELSE FSqrtAt(x, IF x.e % 2 = 0 THEN 58 ELSE 59)

\* -1, 0 or 1 as x < y, x = y or x > y.
FCmpMag(x, y) ==
  IF BBitLen(x.m) + x.e # BBitLen(y.m) + y.e
  THEN (IF BBitLen(x.m) + x.e > BBitLen(y.m) + y.e THEN 1 ELSE -1)
  ELSE BCmp(x.m, y.m)

FSign(x) == IF IsZero(x) THEN 0 ELSE IF x.s = 1 THEN -1 ELSE 1

FCmp(x, y) ==
  IF FSign(x) # FSign(y) THEN (IF FSign(x) > FSign(y) THEN 1 ELSE -1)
  ELSE IF FSign(x) = 0 THEN 0
  ELSE FSign(x) * FCmpMag(x, y)

FLt(x, y) == FCmp(x, y) < 0

FLe(x, y) == FCmp(x, y) <= 0

(* ------------------------------------------------------------------ *)
(* Correlation of two series                                          *)
(* ------------------------------------------------------------------ *)

\* A null result of _pearson.
NoNumber == [s |-> -1, m |-> <<>>, e |-> 0]

\* The candle of date t closing at the whole price p.
Priced(t, p) == [date |-> t, close |-> FInt(p)]

\* A Map is the sequence of its entries in insertion order.
MapHas(m, key) == \E j \in 1..Len(m) : m[j].key = key

MapGet(m, key) == m[CHOOSE j \in 1..Len(m) : m[j].key = key].val

\* Map.prototype.set: a key already present keeps its place.
MapSet(m, key, val) ==
  IF MapHas(m, key)
  THEN SubSeq([j \in 1..Len(m) |-> IF m[j].key = key THEN [key |-> key, val |-> val]
                                   ELSE m[j]], 1, Len(m))
  ELSE Append(m, [key |-> key, val |-> val])

\* if (prev && cur) m.set(candles[i].date, (cur - prev) / prev)
rateEntry(m, date, prev, cur) ==
  IF ~IsZero(prev) /\ ~IsZero(cur) THEN MapSet(m, date, FDiv(FSub(cur, prev), prev))
  ELSE m

\* The loop of rateMap from index i on, m holding the entries set so far.
RECURSIVE rateMapFrom(_, _, _)
rateMapFrom(cs, i, m) ==
  IF i >= Len(cs) THEN m
  ELSE rateMapFrom(cs, i + 1,
                   rateEntry(m, At(cs, i).date, At(cs, i - 1).close, At(cs, i).close))

rateMap(cs) == rateMapFrom(cs, 1, <<>>)

\* [...mA.keys()].filter(d => mB.has(d))
RECURSIVE commonDatesFrom(_, _, _, _)
commonDatesFrom(mA, mB, j, acc) ==
  IF j > Len(mA) THEN acc
  ELSE commonDatesFrom(mA, mB, j + 1,
                       IF MapHas(mB, mA[j].key) THEN Append(acc, mA[j].key) ELSE acc)

commonDates(mA, mB) == commonDatesFrom(mA, mB, 1, <<>>)

\* dates.map(d => m.get(d))
ratesOn(m, dates) == SubSeq([j \in 1..Len(dates) |-> MapGet(m, dates[j])], 1, Len(dates))

\* xs.reduce((s, v) => s + v, 0)
RECURSIVE FSumFrom(_, _, _)
FSumFrom(xs, j, s) == IF j > Len(xs) THEN s ELSE FSumFrom(xs, j + 1, FAdd(s, xs[j]))

FMean(xs) == FDiv(FSumFrom(xs, 1, FZero), FInt(Len(xs)))

\* num += dx * dy; denX += dx * dx; denY += dy * dy
sumsStep(acc, dx, dy) ==
  [num  |-> FAdd(acc.num, FMul(dx, dy)),
   denX |-> FAdd(acc.denX, FMul(dx, dx)),
   denY |-> FAdd(acc.denY, FMul(dy, dy)),
   i    |-> acc.i + 1]

\* The loop over the common dates, acc holding the sums and the index i.
RECURSIVE sumsFrom(_, _, _, _, _)
sumsFrom(xs, ys, meanX, meanY, acc) ==
  IF acc.i >= Len(xs) THEN acc
  ELSE sumsFrom(xs, ys, meanX, meanY,
                sumsStep(acc, FSub(At(xs, acc.i), meanX), FSub(At(ys, acc.i), meanY)))

\* if (den === 0) return null; return num / den
quotientOf(num, den) == IF IsZero(den) THEN NoNumber ELSE FDiv(num, den)

correlationOf(sums) == quotientOf(sums.num, FSqrt(FMul(sums.denX, sums.denY)))

pearsonOf(xs, ys) ==
  correlationOf(sumsFrom(xs, ys, FMean(xs), FMean(ys),
                         [num |-> FZero, denX |-> FZero, denY |-> FZero, i |-> 0]))

MinCommonDates == 5

pearsonOn(mA, mB, dates) ==
  IF Len(dates) < MinCommonDates THEN NoNumber
  ELSE pearsonOf(ratesOn(mA, dates), ratesOn(mB, dates))

pearsonMaps(mA, mB) == pearsonOn(mA, mB, commonDates(mA, mB))

_pearson(candlesA, candlesB) == pearsonMaps(rateMap(candlesA), rateMap(candlesB))

(* ------------------------------------------------------------------ *)
(* Correlation ranking                                                *)
(* ------------------------------------------------------------------ *)

\* A null result of _calcCorrelations.
NoRanking == [ranked |-> 0]

\* tab.stocks.filter(s => s.code !== targetCode), the stocks held by code.
RECURSIVE othersFrom(_, _, _, _)
othersFrom(stocks, targetCode, j, acc) ==
  IF j > Len(stocks) THEN acc
  ELSE othersFrom(stocks, targetCode, j + 1,
                  IF stocks[j] # targetCode THEN Append(acc, stocks[j]) ELSE acc)

\* if (r === null) continue; results.push({ code, name, r }) (the name is
\* carried along and left out here).
pushResult(results, code, r) ==
  IF r = NoNumber THEN results ELSE Append(results, [code |-> code, r |-> r])

\* One pass of the loop over the other stocks: those with no data are skipped.
resultOf(data, targetCandles, code, results) ==
  IF Len(data[code]) = 0 THEN results
  ELSE pushResult(results, code, _pearson(targetCandles, data[code]))

RECURSIVE resultsFrom(_, _, _, _, _)
resultsFrom(data, targetCandles, others, j, results) ==
  IF j > Len(others) THEN results
  ELSE resultsFrom(data, targetCandles, others, j + 1,
                   resultOf(data, targetCandles, others[j], results))

\* The comparator (a, b) => b.r - a.r is negative or zero: a stays ahead of b.
keepsOrder(a, b) == FSign(FSub(b.r, a.r)) <= 0

\* The place of x in the sorted array: behind every entry that stays ahead
\* of it (the sort is stable).
RECURSIVE placeOf(_, _, _)
placeOf(sorted, x, j) ==
  IF j <= Len(sorted) /\ keepsOrder(sorted[j], x) THEN placeOf(sorted, x, j + 1) ELSE j

insertAt(sorted, x, j) == SubSeq(sorted, 1, j - 1) \o <<x>> \o SubSeq(sorted, j, Len(sorted))

\* results.sort((a, b) => b.r - a.r)
RECURSIVE sortFrom(_, _, _)
sortFrom(results, j, sorted) ==
  IF j > Len(results) THEN sorted
  ELSE sortFrom(results, j + 1, insertAt(sorted, results[j], placeOf(sorted, results[j], 1)))

sortByR(results) == sortFrom(results, 1, <<>>)

\* results.filter(x => x.code !== posCode && x.code !== negCode)
RECURSIVE neuCandidatesFrom(_, _, _, _, _)
neuCandidatesFrom(results, posCode, negCode, j, acc) ==
  IF j > Len(results) THEN acc
  ELSE neuCandidatesFrom(results, posCode, negCode, j + 1,
                         IF results[j].code # posCode /\ results[j].code # negCode
                         THEN Append(acc, results[j]) ELSE acc)

\* neuPool.reduce((best, x) => Math.abs(x.r) < Math.abs(best.r) ? x : best)
RECURSIVE closestToZero(_, _, _)
closestToZero(pool, j, best) ==
  IF j > Len(pool) THEN best
  ELSE closestToZero(pool, j + 1,
                     IF FLt(FAbs(pool[j].r), FAbs(best.r)) THEN pool[j] ELSE best)

\* neuOf with the pick always made among all the results.
neuOfAll(results, neuCandidates) == closestToZero(results, 2, results[1])

neuOf(results, neuCandidates) ==
  IF Len(neuCandidates) # 0 THEN closestToZero(neuCandidates, 2, neuCandidates[1])
  ELSE closestToZero(results, 2, results[1])

\* The ranking returned for the sorted results.
rankingOf(results) ==
  [pos |-> results[1],
   neu |-> neuOf(results, neuCandidatesFrom(results, results[1].code,
                                            results[Len(results)].code, 1, <<>>)),
   neg |-> results[Len(results)]]

rankedOrNull(results) ==
  IF Len(results) = 0 THEN NoRanking ELSE rankingOf(sortByR(results))

correlationsAmong(data, targetCode, others) ==
  IF Len(others) = 0 THEN NoRanking
  ELSE rankedOrNull(resultsFrom(data, data[targetCode], others, 1, <<>>))

\* _calcCorrelations and _anCalcCorrelations, over the watch data and the
\* stocks of the active tab.
_calcCorrelations(data, stocks, targetCode) ==
  IF Len(data[targetCode]) = 0 THEN NoRanking
  ELSE correlationsAmong(data, targetCode, othersFrom(stocks, targetCode, 1, <<>>))

(* ------------------------------------------------------------------ *)
(* State                                                              *)
(* ------------------------------------------------------------------ *)

\* The core is a set of pure functions; the state is the series it is handed
\* and the last call made on it.
\*   closes   the closing prices of the full series
\*   candles  the full series (allCandles)
\*   pc       the function called last ("idle" before the first call)
\*   args     the arguments of that call, other than the series
\*   out      what that call returned
\*   shown    the analysis on display before that call (analyzeAll), or the
\*            earlier call the caller kept the result of (SpecCore)
\*   watchData  the full series held for each stock code (AppState.watchData
\*              and AnState.watchData; no entry reads as the empty series)
\*   tab      the stock codes of the active tab, in their order
\* A call is made on the idle state: each behaviour applies one function to
\* one input.  Fetching a stock again (Spec) and the calls of SpecCore follow
\* one another.
VARIABLES closes, candles, pc, args, out, shown, watchData, tab

\* The tab stores of the page (Storage of the watchlist, AnStorage of the
\* analysis page), each with the server table behind it.
\*   _tabs       the tabs held in memory by each store, in their order
\*   _activeTab  the active tab id kept by each store (NoUid when unset)
\*   tabEls      the tabs drawn in each tab bar, each with its close button
\*   tabRows     the tab rows the server holds for each store
\*   tabCalls    the addTab and removeTab calls made: those awaiting the
\*               server and those completed
VARIABLES _tabs, _activeTab, tabEls, tabRows, tabCalls

tabVars == <<_tabs, _activeTab, tabEls, tabRows, tabCalls>>

NoTabs ==
  /\ _tabs = <<>>
  /\ _activeTab = <<>>
  /\ tabEls = <<>>
  /\ tabRows = <<>>
  /\ tabCalls = {}

\* The settings of the watchlist store, held by several clients (browsers)
\* that share the server.
\*   bb_settings   the rows the server table holds for the setting key, in
\*                 the order they were created
\*   _settings     the cache entry each client holds for the key
\*   lastRowId     the last row id the server handed out
\*   settingCalls  the _loadSettings, _cleanDuplicateSettings and _saveSetting
\*                 calls made: those awaiting the server and those completed
VARIABLES bb_settings, _settings, lastRowId, settingCalls

settingVars == <<bb_settings, _settings, lastRowId, settingCalls>>

NoSettings ==
  /\ bb_settings = <<>>
  /\ _settings = <<>>
  /\ lastRowId = 0
  /\ settingCalls = {}

\* One fetchStock call of the proxy-racing API: fetchPc is where the call is
\* ("idle", "racing" in _raceAll, "parsing" a response, "returned", "thrown"),
\* attempt the loop counter, tasks the outcome of each proxy request of the
\* running _raceAll ("pending" until it settles), failures the kinds of the
\* failures of the attempts made so far.
VARIABLES fetchPc, attempt, tasks, failures

fetchVars == <<fetchPc, attempt, tasks, failures>>

NoFetch ==
  /\ fetchPc = "idle"
  /\ attempt = 0
  /\ tasks = <<>>
  /\ failures = <<>>

\* One fetchMultipleFast call: poolPc is where the call is ("idle", "running",
\* "resolved"), poolStocks and poolConcurrency its arguments, poolIdx and
\* poolResults the idx and results of its closure, poolWorkers what each
\* worker awaits. poolFetches counts the fetchStock calls made for each index,
\* poolOutcomes holds what each of them ended with and poolCompleted the order
\* they ended in.
VARIABLES poolPc, poolStocks, poolConcurrency, poolIdx, poolResults, poolWorkers, poolFetches, poolOutcomes, poolCompleted

poolVars == <<poolPc, poolStocks, poolConcurrency, poolIdx, poolResults, poolWorkers, poolFetches, poolOutcomes, poolCompleted>>

NoPool ==
  /\ poolPc = "idle"
  /\ poolStocks = <<>>
  /\ poolConcurrency = 0
  /\ poolIdx = 0
  /\ poolResults = <<>>
  /\ poolWorkers = <<>>
  /\ poolFetches = <<>>
  /\ poolOutcomes = <<>>
  /\ poolCompleted = <<>>

\* One moveStocks call: moveTabs and moveActive are the _tabs and _activeTab
\* of the store it runs on, movePc is "idle" before the call and "moved" after
\* it, moveBefore holds the tabs as they were when the call started and
\* moveCall the store, the arguments and the count returned.
VARIABLES movePc, moveTabs, moveActive, moveBefore, moveCall

moveVars == <<movePc, moveTabs, moveActive, moveBefore, moveCall>>

NoMove ==
  /\ movePc = "idle"
  /\ moveTabs = <<>>
  /\ moveActive = 0
  /\ moveBefore = <<>>
  /\ moveCall = <<>>

\* The interval buttons of the header: btns gives the disabled and _switching
\* flags of each .interval-btn, previewInterval and listInterval are those of
\* AppState, previewCode tells whether AppState.previewCode is unset ("none"),
\* a stock of the tabs ("listed") or a search result ("searched"), intervalUid
\* whether the settings cache holds a row id for the key 'interval', clicks
\* counts the clicks made and switchCalls holds the click handlers that have
\* locked the buttons, each with the click it began at and the await it stands
\* at (a handler that has ended is kept until the next one begins).
VARIABLES btns, previewInterval, listInterval, previewCode, intervalUid, clicks, switchCalls

switchVars == <<btns, previewInterval, listInterval, previewCode, intervalUid, clicks, switchCalls>>

NoSwitch ==
  /\ btns = <<>>
  /\ previewInterval = ""
  /\ listInterval = ""
  /\ previewCode = ""
  /\ intervalUid = FALSE
  /\ clicks = 0
  /\ switchCalls = {}

\* The preview card: preview holds AppState.previewCode and
\* AppState.previewData, previewCalls the doSearch and showStockPreview
\* requests made so far, in the order they started, each with the await it
\* stands at, and watched the codes whose watchData entry showStockPreview
\* shows at once (the preview and list intervals being the same).
VARIABLES preview, previewCalls, watched

previewVars == <<preview, previewCalls, watched>>

NoPreview ==
  /\ preview = <<>>
  /\ previewCalls = {}
  /\ watched = {}

\* The state of the page around the indicator core.
appVars == <<tabVars, settingVars, fetchVars, poolVars, moveVars, switchVars, previewVars>>

\* Every part of the page but the part g is untouched.
AppIdleBut(g) ==
  /\ g = "tabs" \/ NoTabs
  /\ g = "settings" \/ NoSettings
  /\ g = "fetch" \/ NoFetch
  /\ g = "pool" \/ NoPool
  /\ g = "move" \/ NoMove
  /\ g = "switch" \/ NoSwitch
  /\ g = "preview" \/ NoPreview

vars == <<closes, candles, pc, args, out, shown, watchData, tab, appVars>>

NoArgs == [none |-> TRUE]

Idle ==
  /\ pc = "idle"
  /\ args = NoArgs
  /\ out = <<>>
  /\ shown = <<>>
  /\ AppIdleBut("none")

\* No stock is watched.
NoWatchList ==
  /\ watchData = <<>>
  /\ tab = <<>>

\* No call of the indicator core is made: the state of the core for the
\* behaviours of the part g of the page.
CoreIdleFor(g) ==
  /\ closes = <<>>
  /\ candles = <<>>
  /\ pc = "idle"
  /\ args = NoArgs
  /\ out = <<>>
  /\ shown = <<>>
  /\ NoWatchList
  /\ AppIdleBut(g)

coreVars == <<closes, candles, pc, args, out, shown, watchData, tab>>

\* The variables each part of the page leaves alone.
exceptTabs == <<coreVars, settingVars, fetchVars, poolVars, moveVars, switchVars, previewVars>>

exceptSettings == <<coreVars, tabVars, fetchVars, poolVars, moveVars, switchVars, previewVars>>

exceptFetch == <<coreVars, tabVars, settingVars, poolVars, moveVars, switchVars, previewVars>>

exceptPool == <<coreVars, tabVars, settingVars, fetchVars, moveVars, switchVars, previewVars>>

exceptMove == <<coreVars, tabVars, settingVars, fetchVars, poolVars, switchVars, previewVars>>

exceptSwitch == <<coreVars, tabVars, settingVars, fetchVars, poolVars, moveVars, previewVars>>

exceptPreview == <<coreVars, tabVars, settingVars, fetchVars, poolVars, moveVars, switchVars>>

Candle(high, low, close, volume) ==
  [high |-> Num(high), low |-> Num(low), close |-> Num(close), volume |-> Num(volume)]

closesOf(allCandles) == Array([j \in 1..Len(allCandles) |-> allCandles[j].close], Len(allCandles))

\* All sequences over S of length lo..hi.
SeqsOf(S, lo, hi) == UNION {[1..n -> S] : n \in lo..hi}

(* ------------------------------------------------------------------ *)
(* Fetching a stock and analysing it for display                      *)
(* ------------------------------------------------------------------ *)

MaxTotal == 29

HeadBars == 15

\* The display sizes asked for (candleCount); the largest exceeds every series.
CandleCounts == {5, 20, 50}

\* Bars whose closes move (the first HeadBars bars are drawn from these) and
\* bars that close at the same price with a different range and volume.
HeadCandles == {Candle(3, 1, 2, 1), Candle(6, 2, 3, 1), Candle(2, 0, 1, 2)}

TailCandles == {Candle(4, 2, 2, 1), Candle(2, 0, 2, 2)}

\* The parsed candle of timestamp t.
Dated(t, c) == [date |-> t, high |-> c.high, low |-> c.low, close |-> c.close,
                volume |-> c.volume]

\* A series of n bars: the head pattern repeated over the first HeadBars
\* bars, the tail pattern (two bars that differ) over the others.
Series(head, tail, n) ==
  Array([j \in 1..n |->
           Dated(j, IF j <= HeadBars THEN head[((j - 1) % Len(head)) + 1]
                    ELSE tail[((j - 1) % Len(tail)) + 1])], n)

\* What _parse returns for the series and a display size.
stockDataOf(allCandles, allCloses, candleCount) ==
  [closes       |-> allCloses,
   allCandles   |-> allCandles,
   candles      |-> periodCandles(allCandles, candleCount),
   currentPrice |-> IF Len(allCloses) = 0 THEN Zero ELSE allCloses[Len(allCloses)]]

Init ==
  /\ candles \in {Series(head, tail, n) :
                    head \in SeqsOf(HeadCandles, 2, 2),
                    tail \in {t \in SeqsOf(TailCandles, 2, 2) : t[1] # t[2]},
                    n \in {0, 1, 3, MaxTotal}}
  /\ closes = closesOf(candles)
  /\ Idle
  /\ NoWatchList

\* fetchStock with a display size, then analyzeAll on the parsed data; the
\* analysis on display so far is kept in `shown`.
FetchStock ==
  \E candleCount \in CandleCounts :
    /\ pc \in {"idle", "analyzeAll"}
    /\ pc' = "analyzeAll"
    /\ args' = [candleCount |-> candleCount, bbPeriod |-> DefaultBBPeriod]
    /\ out' = analyzeAll(stockDataOf(candles, closes, candleCount), DefaultBBPeriod)
    /\ shown' = out
    /\ UNCHANGED <<closes, candles, watchData, tab, appVars>>

Next == FetchStock

Spec == Init /\ [][Next]_vars

(* ------------------------------------------------------------------ *)
(* The engines over a closing-price series                            *)
(* ------------------------------------------------------------------ *)

MaxLen == 4

MaxPeriod == 3

MaxMult == 2

\* Prices a cent apart (their means fall between cents) and a penny price
\* (the lower band falls below zero).
ClosePrices == {Rat(1, 100), Rat(101, 100), Rat(102, 100)}

InitBands ==
  /\ closes \in SeqsOf(ClosePrices, 0, MaxLen)
  /\ candles = <<>>
  /\ Idle
  /\ NoWatchList

CallBollingerBands ==
  \E period \in 1..MaxPeriod, mult \in 0..MaxMult :
    /\ pc = "idle"
    /\ pc' = "bollingerBands"
    /\ args' = [period |-> period, mult |-> mult]
    /\ out' = bollingerBands(closes, period, Num(mult))
    /\ UNCHANGED <<closes, candles, shown, watchData, tab, appVars>>

CallLatestBB ==
  \E period \in 1..MaxPeriod, mult \in 0..MaxMult :
    /\ pc = "idle"
    /\ pc' = "latestBB"
    /\ args' = [period |-> period, mult |-> mult]
    /\ out' = latestBB(closes, period, Num(mult))
    /\ UNCHANGED <<closes, candles, shown, watchData, tab, appVars>>

CallRsi ==
  \E period \in 1..MaxPeriod :
    /\ pc = "idle"
    /\ pc' = "rsi"
    /\ args' = [period |-> period]
    /\ out' = rsi(closes, period)
    /\ UNCHANGED <<closes, candles, shown, watchData, tab, appVars>>

NextBands == CallBollingerBands \/ CallLatestBB \/ CallRsi

SpecBands == InitBands /\ [][NextBands]_vars

(* ------------------------------------------------------------------ *)
(* The oscillators over a candle series                               *)
(* ------------------------------------------------------------------ *)

MaxBars == 3

MaxK == 2

\* Bars closing at the high, at 3/4 and at 1/4 of the range, and at the low,
\* and two bars with no range (high = low) at different prices.
StochCandles ==
  {Candle(2, 0, 2, 1), Candle(4, 0, 3, 1), Candle(4, 0, 1, 1), Candle(4, 2, 2, 1),
   Candle(2, 2, 2, 1), Candle(4, 4, 4, 1)}

InitStoch ==
  /\ candles \in SeqsOf(StochCandles, 0, MaxBars)
  /\ closes = closesOf(candles)
  /\ Idle
  /\ NoWatchList

CallStochastic ==
  \E k1 \in 1..MaxK, k2 \in 1..MaxK, d \in 1..MaxK :
    /\ pc = "idle"
    /\ pc' = "stochastic"
    /\ args' = [k1 |-> k1, k2 |-> k2, d |-> d]
    /\ out' = stochastic(candles, k1, k2, d)
    /\ UNCHANGED <<closes, candles, shown, watchData, tab, appVars>>

CallRsiStoch ==
  \E rsiPeriod \in 1..MaxK, k1 \in 1..MaxK, k2 \in 1..MaxK, d \in 1..MaxK :
    /\ pc = "idle"
    /\ pc' = "rsiStoch"
    /\ args' = [rsiPeriod |-> rsiPeriod, k1 |-> k1, k2 |-> k2, d |-> d,
                ob |-> Overbought, os |-> Oversold]
    /\ out' = rsiStoch(closes, candles, args')
    /\ UNCHANGED <<closes, candles, shown, watchData, tab, appVars>>

NextStoch == CallStochastic \/ CallRsiStoch

SpecStoch == InitStoch /\ [][NextStoch]_vars

MaxEomBars == 5

MaxEomPeriod == 2

MaxEomSignal == 3

\* Bars of range 1 around three price levels, one of them on double volume,
\* and a bar with no volume (its raw value is 0).
EomCandles == {Candle(2, 1, 2, 1), Candle(5, 4, 5, 1), Candle(1, 0, 1, 2), Candle(2, 1, 2, 0)}

InitEom ==
  /\ candles \in SeqsOf(EomCandles, 0, MaxEomBars)
  /\ closes = closesOf(candles)
  /\ Idle
  /\ NoWatchList

CallEom ==
  \E period \in 1..MaxEomPeriod, signal \in 1..MaxEomSignal :
    /\ pc = "idle"
    /\ pc' = "eom"
    /\ args' = [period |-> period, signal |-> signal]
    /\ out' = eom(candles, period, signal)
    /\ UNCHANGED <<closes, candles, shown, watchData, tab, appVars>>

NextEom == CallEom

SpecEom == InitEom /\ [][NextEom]_vars

(* ------------------------------------------------------------------ *)
(* The alert classification                                           *)
(* ------------------------------------------------------------------ *)

MaxCents == 6

Cents == {Rat(c, 100) : c \in 0..MaxCents}

InitAlert ==
  /\ closes = <<>>
  /\ candles = <<>>
  /\ Idle
  /\ NoWatchList

CallAlertLevel ==
  \E currentPrice \in Cents, upper \in Cents, middle \in Cents, lower \in Cents :
    /\ pc = "idle"
    /\ pc' = "alertLevel"
    /\ args' = [currentPrice |-> currentPrice, upper |-> upper,
                middle |-> middle, lower |-> lower]
    /\ out' = alertLevel(currentPrice, upper, middle, lower)
    /\ UNCHANGED <<closes, candles, shown, watchData, tab, appVars>>

CallBbRatio ==
  \E currentPrice \in Cents, upper \in Cents, lower \in Cents :
    /\ pc = "idle"
    /\ pc' = "bbRatio"
    /\ args' = [currentPrice |-> currentPrice, upper |-> upper, lower |-> lower]
    /\ out' = bbRatio(currentPrice, upper, lower)
    /\ UNCHANGED <<closes, candles, shown, watchData, tab, appVars>>

NextAlert == CallAlertLevel \/ CallBbRatio

SpecAlert == InitAlert /\ [][NextAlert]_vars

(* ------------------------------------------------------------------ *)
(* The correlation of the watched stocks                              *)
(* ------------------------------------------------------------------ *)

\* The series of whole closing prices of the dates first, first + 1, ...
PricedFrom(first, prices) ==
  Array([j \in 1..Len(prices) |-> Priced(first + j - 1, prices[j])], Len(prices))

\* The stocks on watch, in the order they were added.  NONE has no data.
WatchOrder == <<"GEN", "UP", "DN", "GEO", "UP2", "NONE", "FLAT", "SHORT", "LATE", "GAP", "MIX">>

Codes == {WatchOrder[j] : j \in 1..Len(WatchOrder)}

\* The series fetched for each stock: a zigzag (GEN), three series that
\* alternate between two prices (UP and UP2 together, DN against them), a
\* series growing by a tenth a day (GEO: equal returns), a series that does
\* not move (FLAT), one of four returns (SHORT), one that starts three days
\* late (LATE), one with a missing (zero) close (GAP), and one more (MIX).
SeriesOf(code) ==
  CASE code = "GEN"   -> PricedFrom(1, <<100, 101, 100, 102, 100, 103, 100>>)
    [] code = "UP"    -> PricedFrom(1, <<140, 114, 140, 114, 140, 114>>)
    [] code = "UP2"   -> PricedFrom(1, <<129, 69, 129, 69, 129, 69>>)
    [] code = "DN"    -> PricedFrom(1, <<69, 129, 69, 129, 69, 129>>)
    [] code = "GEO"   -> PricedFrom(1, <<1000000, 1100000, 1210000, 1331000, 1464100,
                                         1610510, 1771561>>)
    [] code = "FLAT"  -> PricedFrom(1, <<50, 50, 50, 50, 50, 50, 50>>)
    [] code = "SHORT" -> PricedFrom(1, <<10, 11, 12, 11, 10>>)
    [] code = "LATE"  -> PricedFrom(4, <<10, 12, 11, 13, 12, 14, 13>>)
    [] code = "GAP"   -> PricedFrom(1, <<0, 100, 104, 100, 102, 100, 103>>)
    [] code = "MIX"   -> PricedFrom(1, <<20, 21, 23, 22, 25, 24, 24>>)
    [] OTHER          -> <<>>

AllWatchData == [code \in Codes |-> SeriesOf(code)]

InitPearson ==
  /\ watchData = AllWatchData
  /\ tab = <<>>
  /\ closes = <<>>
  /\ candles = <<>>
  /\ Idle

\* _pearson on the series of two watched stocks.
CallPearson ==
  \E a \in Codes, b \in Codes :
    /\ pc = "idle"
    /\ pc' = "_pearson"
    /\ args' = [a |-> a, b |-> b]
    /\ out' = _pearson(watchData[a], watchData[b])
    /\ UNCHANGED <<closes, candles, shown, watchData, tab, appVars>>

NextPearson == CallPearson

SpecPearson == InitPearson /\ [][NextPearson]_vars

MaxTab == 3

\* The stocks a tab is made of.
TabSize == 6

\* The selections of at most MaxTab of the first TabSize stocks on watch.
TabSelections == {S \in SUBSET (1..TabSize) : Cardinality(S) <= MaxTab}

\* The j-th smallest element of the set of numbers S.
RECURSIVE Nth(_, _)
Nth(S, j) ==
  IF j = 1 THEN CHOOSE x \in S : \A y \in S : x <= y
  ELSE Nth(S \ {CHOOSE x \in S : \A y \in S : x <= y}, j - 1)

\* The selected stocks in the order they were added, or in the reverse order.
TabOf(S, reversed) ==
  Array([j \in 1..Cardinality(S) |->
           WatchOrder[Nth(S, IF reversed THEN Cardinality(S) + 1 - j ELSE j)]],
        Cardinality(S))

\* The stocks whose correlations are asked for.
Targets == {"GEN", "UP"}

InitCorr ==
  /\ watchData = AllWatchData
  /\ tab \in {TabOf(S, reversed) : S \in TabSelections, reversed \in BOOLEAN}
  /\ closes = <<>>
  /\ candles = <<>>
  /\ Idle

\* _calcCorrelations (or _anCalcCorrelations) for a stock.
CalcCorrelations ==
  \E targetCode \in Targets :
    /\ pc = "idle"
    /\ pc' = "_calcCorrelations"
    /\ args' = [targetCode |-> targetCode]
    /\ out' = _calcCorrelations(watchData, tab, targetCode)
    /\ UNCHANGED <<closes, candles, shown, watchData, tab, appVars>>

NextCorr == CalcCorrelations

SpecCorr == InitCorr /\ [][NextCorr]_vars

(* ------------------------------------------------------------------ *)
(* Properties of the Bollinger and RSI engines (SpecBands)            *)
(* ------------------------------------------------------------------ *)

Indices(arr) == 0..(Len(arr) - 1)

AllNullBand(b) == IsNull(b.upper) /\ IsNull(b.middle) /\ IsNull(b.lower)

NoNullBand(b) == ~IsNull(b.upper) /\ ~IsNull(b.middle) /\ ~IsNull(b.lower)

Ordered(b) == Le(b.lower, b.middle) /\ Le(b.middle, b.upper)

\* C5. Null warm-up boundary: bollingerBands(closes, period) has the length
\* of closes and entry i is the all-null band iff i < period - 1 (every other
\* entry has no null field); rsi(closes, period) has the length of closes
\* and entry i is null iff i < period.
WarmUpBoundary ==
  /\ pc = "bollingerBands" =>
        /\ Len(out) = Len(closes)
        /\ \A i \in Indices(closes) :
             /\ AllNullBand(At(out, i)) <=> i < args.period - 1
             /\ NoNullBand(At(out, i)) <=> ~(i < args.period - 1)
  /\ pc = "rsi" =>
        /\ Len(out) = Len(closes)
        /\ \A i \in Indices(closes) : IsNull(At(out, i)) <=> i < args.period

\* An rsi call whose output has both a null and a non-null entry.
WarmUpWitness ==
  /\ pc = "rsi"
  /\ args.period >= 2
  /\ Len(closes) > args.period
  /\ IsNull(At(out, args.period - 1))
  /\ ~IsNull(At(out, args.period))

\* C6. Band ordering: every non-null band of bollingerBands and of latestBB
\* (mult >= 0) has lower <= middle <= upper.
BandOrdering ==
  /\ pc = "bollingerBands" =>
        \A i \in Indices(out) : ~AllNullBand(At(out, i)) => Ordered(At(out, i))
  /\ pc = "latestBB" => (out # Null => Ordered(out))

\* A latestBB band with three different values, the lower one negative.
BandOrderingWitness ==
  /\ pc = "latestBB"
  /\ out # Null
  /\ Lt(out.lower, Zero)
  /\ Lt(out.lower, out.middle)
  /\ Lt(out.middle, out.upper)

\* C9 as claimed. latestBB is the last entry of bollingerBands when closes
\* has at least `period` entries, a non-null band over all closes when it has
\* fewer than `period` but at least 2, and null when it has 0 or 1 entries.
LatestBBAsClaimed ==
  pc = "latestBB" =>
    /\ Len(closes) >= args.period =>
          out = bollingerBands(closes, args.period, Num(args.mult))[Len(closes)]
    /\ (Len(closes) < args.period /\ Len(closes) >= 2) =>
          /\ out = bandOf(closes, Num(args.mult))
          /\ NoNullBand(out)
    /\ Len(closes) <= 1 => out = Null

\* C9, amended. The third case is read inside the second: latestBB is null
\* when closes has fewer than `period` entries and 0 or 1 entries (a single
\* close with period 1 is the first case: the band of that close).
LatestBBDegradation ==
  pc = "latestBB" =>
    /\ Len(closes) >= args.period =>
          /\ out = bollingerBands(closes, args.period, Num(args.mult))[Len(closes)]
          /\ NoNullBand(out)
    /\ (Len(closes) < args.period /\ Len(closes) >= 2) =>
          /\ out = bandOf(closes, Num(args.mult))
          /\ out.middle = toFixed(mean(closes), 2)
          /\ NoNullBand(out)
    /\ (Len(closes) < args.period /\ Len(closes) <= 1) => out = Null

\* The fallback: a series shorter than the period with two closes that differ.
LatestBBWitness ==
  /\ pc = "latestBB"
  /\ Len(closes) < args.period
  /\ Len(closes) >= 2
  /\ args.mult > 0
  /\ out # Null
  /\ Lt(out.lower, out.upper)

NonDecreasing(s) == \A i \in 1..(Len(s) - 1) : Le(s[i], s[i + 1])

NonIncreasing(s) == \A i \in 1..(Len(s) - 1) : Le(s[i + 1], s[i])

StrictlyDecreasing(s) == \A i \in 1..(Len(s) - 1) : Lt(s[i + 1], s[i])

\* C10 as claimed. A monotonically increasing series longer than the period
\* has rsi 100 at every index >= period, a monotonically decreasing one 0.
RsiBoundaryAsClaimed ==
  (pc = "rsi" /\ Len(closes) > args.period) =>
    /\ NonDecreasing(closes) =>
          \A i \in args.period..(Len(closes) - 1) : At(out, i) = Num(100)
    /\ NonIncreasing(closes) =>
          \A i \in args.period..(Len(closes) - 1) : At(out, i) = Zero

\* C10, amended. "Decreasing" is strict: a non-decreasing series (avgLoss
\* stays 0, flat bars included) has rsi 100 at every index >= period, and a
\* strictly decreasing series has rsi 0 at every index >= period.
RsiBoundary ==
  (pc = "rsi" /\ Len(closes) > args.period) =>
    /\ NonDecreasing(closes) =>
          \A i \in args.period..(Len(closes) - 1) : At(out, i) = Num(100)
    /\ StrictlyDecreasing(closes) =>
          \A i \in args.period..(Len(closes) - 1) : At(out, i) = Zero

\* A strictly decreasing series with a smoothing step after the warm-up.
RsiBoundaryWitness ==
  /\ pc = "rsi"
  /\ Len(closes) > args.period + 1
  /\ StrictlyDecreasing(closes)
  /\ At(out, Len(closes) - 1) = Zero

(* ------------------------------------------------------------------ *)
(* Properties of the alert classification (SpecAlert)                 *)
(* ------------------------------------------------------------------ *)

\* A price of the grid as a whole number of cents.
InCents(x) == (x.n * 100) \div x.d

\* C7. Alert asymmetry: for a band with lower <= middle <= upper and a price
\* strictly above middle, alertLevel returns level 0.
AlertAsymmetry ==
  (/\ pc = "alertLevel"
   /\ Le(args.lower, args.middle)
   /\ Le(args.middle, args.upper)
   /\ Lt(args.middle, args.currentPrice)) => out.level = 0

\* A price above an off-centre middle whose ratio is below 0.5.
AlertAsymmetryWitness ==
  /\ pc = "alertLevel"
  /\ Le(args.lower, args.middle)
  /\ Le(args.middle, args.upper)
  /\ Lt(args.middle, args.currentPrice)
  /\ Lt(out.ratio, Rat(1, 2))
  /\ out.level = 0

StochOf == stochastic(candles, args.k1, args.k2, args.d)

\* C2. rsiStoch emits a non-null signal at bar i only when slowK[i],
\* slowD[i], slowK[i-1] and slowD[i-1] are all non-null: no BUY or SELL at
\* the first bar where slowD is non-null (index k1+k2+d-3).
SignalNeedsPreviousLines ==
  pc = "rsiStoch" =>
    \A i \in Indices(out) :
      At(out, i).signal # NoSignal =>
        /\ ~IsNull(At(out, i).slowK)
        /\ ~IsNull(At(out, i).slowD)
        /\ i > 0
        /\ ~IsNull(At(out, i - 1).slowK)
        /\ ~IsNull(At(out, i - 1).slowD)
        /\ i # args.k1 + args.k2 + args.d - 3

\* A cross of slowK over slowD between bars i-1 and i: the four values exist,
\* slowK was at or below slowD and is above it now.
CrossedUp(st, i) ==
  /\ i > 0
  /\ ~IsNull(At(st, i - 1).slowK) /\ ~IsNull(At(st, i - 1).slowD)
  /\ ~IsNull(At(st, i).slowK) /\ ~IsNull(At(st, i).slowD)
  /\ Le(At(st, i - 1).slowK, At(st, i - 1).slowD)
  /\ Lt(At(st, i).slowD, At(st, i).slowK)

CrossedDown(st, i) ==
  /\ i > 0
  /\ ~IsNull(At(st, i - 1).slowK) /\ ~IsNull(At(st, i - 1).slowD)
  /\ ~IsNull(At(st, i).slowK) /\ ~IsNull(At(st, i).slowD)
  /\ Le(At(st, i - 1).slowD, At(st, i - 1).slowK)
  /\ Lt(At(st, i).slowK, At(st, i).slowD)

\* C3. The signal of a bar is BUY only if RSI < 50, slowK < oversold + 10 and
\* slowK crossed above slowD; SELL only if RSI > 50, slowK > overbought - 10
\* and slowK crossed below slowD; never both; a bar with no cross has signal
\* null.
SignalRule ==
  pc = "rsiStoch" =>
    \A i \in Indices(out) :
      LET o == At(out, i)
      IN  /\ o.signal \in {"BUY", "SELL", NoSignal}
          /\ o.signal = "BUY" =>
               /\ ~IsNull(o.rsi) /\ Lt(o.rsi, Num(50))
               /\ Lt(o.slowK, Num(args.os + 10))
               /\ CrossedUp(StochOf, i)
          /\ o.signal = "SELL" =>
               /\ ~IsNull(o.rsi) /\ Lt(Num(50), o.rsi)
               /\ Lt(Num(args.ob - 10), o.slowK)
               /\ CrossedDown(StochOf, i)
          /\ (~CrossedUp(StochOf, i) /\ ~CrossedDown(StochOf, i)) => o.signal = NoSignal

\* The signal rule on the bars whose previous slowD exists.
SignalRuleAfterFirstSlowD ==
  pc = "rsiStoch" =>
    \A i \in Indices(out) :
      (i > 0 /\ ~IsNull(At(out, i - 1).slowD)) =>
        LET o == At(out, i)
        IN  /\ o.signal = "BUY" =>
                 Lt(o.rsi, Num(50)) /\ Lt(o.slowK, Num(args.os + 10)) /\ CrossedUp(StochOf, i)
            /\ o.signal = "SELL" =>
                 Lt(Num(50), o.rsi) /\ Lt(Num(args.ob - 10), o.slowK) /\ CrossedDown(StochOf, i)
            /\ (~CrossedUp(StochOf, i) /\ ~CrossedDown(StochOf, i)) => o.signal = NoSignal

\* A signal on a bar that has its previous slowD.
SignalAfterFirstSlowD ==
  /\ pc = "rsiStoch"
  /\ \E i \in Indices(out) :
       /\ i > 0
       /\ ~IsNull(At(out, i - 1).slowD)
       /\ At(out, i).signal = "BUY"


\* Bar i and bar i-1 of an eom result both carry eom and signal values.
LinesDefined(res, i) ==
  /\ i > 0
  /\ ~IsNull(At(res, i).eom) /\ ~IsNull(At(res, i).signal)
  /\ ~IsNull(At(res, i - 1).eom) /\ ~IsNull(At(res, i - 1).signal)

SignalLineUp(res, i) ==
  Le(At(res, i - 1).eom, At(res, i - 1).signal) /\ Lt(At(res, i).signal, At(res, i).eom)

SignalLineDown(res, i) ==
  Le(At(res, i - 1).signal, At(res, i - 1).eom) /\ Lt(At(res, i).eom, At(res, i).signal)

ZeroLineUp(res, i) == Lt(At(res, i - 1).eom, Zero) /\ Le(Zero, At(res, i).eom)

ZeroLineDown(res, i) == Le(Zero, At(res, i - 1).eom) /\ Lt(At(res, i).eom, Zero)

EomCrossOppositeCase ==
  /\ pc = "eom"
  /\ \E i \in Indices(out) :
       /\ LinesDefined(out, i)
       /\ SignalLineDown(out, i)
       /\ ZeroLineUp(out, i)
       /\ At(out, i).crossSignal = "SELL"

\* A bar with a zero-line cross and no signal-line cross.
EomZeroLineOnlyCase ==
  /\ pc = "eom"
  /\ \E i \in Indices(out) :
       /\ LinesDefined(out, i)
       /\ ~SignalLineUp(out, i) /\ ~SignalLineDown(out, i)
       /\ ZeroLineUp(out, i) \/ ZeroLineDown(out, i)
       /\ At(out, i).crossSignal # NoSignal


\* The indicator values analyzeAll attaches to a candle.
IndicatorsOf(r) ==
  <<r.bbUpper, r.bbMiddle, r.bbLower, r.eom, r.eomSignal, r.eomCross,
    r.rsi, r.slowK, r.slowD, r.rsiStSignal>>

\* The indicator values of the rows b, e, r of bollingerBands, eom and rsiStoch.
FullRow(b, e, r) ==
  <<b.upper, b.middle, b.lower, e.eom, e.signal, e.crossSignal,
    r.rsi, r.slowK, r.slowD, r.signal>>

FullRows(bands, e, r) == Array([j \in 1..Len(bands) |-> FullRow(bands[j], e[j], r[j])], Len(bands))

\* The indicator values of every index of the full series.
FullSeries ==
  FullRows(bollingerBands(closes, DefaultBBPeriod, Num(DefaultMult)),
           eom(candles, EomPeriod, EomSignalPeriod),
           rsiStoch(closes, candles,
                    [rsiPeriod |-> RsiPeriod, k1 |-> StochK1, k2 |-> StochK2,
                     d |-> StochD, ob |-> Overbought, os |-> Oversold]))

\* Record i of a display window carries candle offset + i of the full series
\* and its indicator values.
AlignedWith(full, window) ==
  \A i \in Indices(window) :
    /\ At(window, i).candle = At(candles, Len(candles) - Len(window) + i)
    /\ IndicatorsOf(At(window, i)) = At(full, Len(candles) - Len(window) + i)

\* C1. For one full series and two display windows that are suffixes of it,
\* every candle present in both windows carries the same indicator values in
\* both outputs: record i of a window carries the full-series values of index
\* len(allCandles) - len(window) + i.
WindowInvariance ==
  pc = "analyzeAll" =>
    /\ AlignedWith(FullSeries, out.candlesWithBB)
    /\ shown # <<>> =>
         \A i \in Indices(shown.candlesWithBB), j \in Indices(out.candlesWithBB) :
           At(shown.candlesWithBB, i).candle.date = At(out.candlesWithBB, j).candle.date =>
             IndicatorsOf(At(shown.candlesWithBB, i)) = IndicatorsOf(At(out.candlesWithBB, j))

\* A window widened from N1 to N2 > N1 bars: the bars on display before stay,
\* two of them carry every indicator with different band and slowK values.
WindowInvarianceWitness ==
  /\ pc = "analyzeAll"
  /\ shown # <<>>
  /\ 1 < Len(shown.candlesWithBB)
  /\ Len(shown.candlesWithBB) < Len(out.candlesWithBB)
  /\ Len(out.candlesWithBB) < Len(candles)
  /\ \E i, j \in Indices(shown.candlesWithBB) :
       LET a == At(shown.candlesWithBB, i)
           b == At(shown.candlesWithBB, j)
       IN  /\ \A k \in {1, 2, 3, 4, 5, 7, 8, 9} :
                ~IsNull(IndicatorsOf(a)[k]) /\ ~IsNull(IndicatorsOf(b)[k])
           /\ a.bbUpper # b.bbUpper
           /\ a.eom # b.eom
           /\ a.slowK # b.slowK

(* ------------------------------------------------------------------ *)
(* Properties of the stochastic engine (SpecStoch)                    *)
(* ------------------------------------------------------------------ *)

\* A number of the program that is neither null, NaN nor an infinity.
Finite(x) == x.d > 0

\* The trailing k1 bars ending at bar i.
WindowAt(i, k1) == slice(candles, i - k1 + 1, i + 1)

\* Every bar of the window has high = low.
EachBarFlat(w) == \A j \in 1..Len(w) : w[j].high = w[j].low

\* The range of the window is 0: its highest high is its lowest low.
RangeFlat(w) == MaxHigh(w) = MinLow(w)

\* C11 as claimed. Stochastic flat-range fallback: at every index i >= k1-1
\* whose trailing k1 bars each have high = low, fastK is 50; fastK is never
\* NaN or Infinity.
FlatBarsAsClaimed ==
  pc = "stochastic" =>
    \A i \in Indices(out) :
      i >= args.k1 - 1 =>
        /\ Finite(At(out, i).fastK)
        /\ EachBarFlat(WindowAt(i, args.k1)) => At(out, i).fastK = Num(50)

\* C11, amended. The fallback is taken on the range of the window: at every
\* index i >= k1-1 whose trailing k1 bars have the highest high equal to the
\* lowest low (all bars flat at one price), fastK is 50; at every index
\* i >= k1-1 fastK is a finite number between 0 and 100.
FlatRangeFallback ==
  pc = "stochastic" =>
    \A i \in Indices(out) :
      i >= args.k1 - 1 =>
        /\ Finite(At(out, i).fastK)
        /\ Le(Zero, At(out, i).fastK) /\ Le(At(out, i).fastK, Num(100))
        /\ RangeFlat(WindowAt(i, args.k1)) => At(out, i).fastK = Num(50)

\* A window of two bars flat at the same price: fastK is 50.
FlatRangeWitness ==
  /\ pc = "stochastic"
  /\ args.k1 = 2
  /\ \E i \in Indices(out) :
       /\ i >= args.k1 - 1
       /\ RangeFlat(WindowAt(i, args.k1))
       /\ At(out, i).fastK = Num(50)

(* ------------------------------------------------------------------ *)
(* Properties of the EOM engine (SpecEom)                             *)
(* ------------------------------------------------------------------ *)

\* arr has p entries ending at index i and none of them is null.
FullWindowNoNull(arr, i, p) ==
  /\ i - p + 1 >= 0
  /\ ~someNull(slice(arr, i - p + 1, i + 1))

\* The EOM line of an eom result.
EomLine(res) == Array([j \in 1..Len(res) |-> res[j].eom], Len(res))

\* C12. EOM warm-up and null propagation: eom[i] is non-null exactly when
\* the trailing `period` raw values ending at i hold no null (raw[0] is
\* null), and is then their mean; signal[i] is non-null exactly when the
\* trailing `signalPeriod` eom values ending at i hold no null, and is then
\* their mean; crossSignal[i] is null whenever eom[i-1] or signal[i-1] is null.
EomNullPropagation ==
  pc = "eom" =>
    /\ Len(out) = Len(candles)
    /\ \A i \in Indices(out) :
         /\ ~IsNull(At(out, i).eom) <=> FullWindowNoNull(eomRawArr(candles), i, args.period)
         /\ ~IsNull(At(out, i).eom) =>
              At(out, i).eom = mean(slice(eomRawArr(candles), i - args.period + 1, i + 1))
         /\ ~IsNull(At(out, i).signal) <=> FullWindowNoNull(EomLine(out), i, args.signal)
         /\ ~IsNull(At(out, i).signal) =>
              At(out, i).signal = mean(slice(EomLine(out), i - args.signal + 1, i + 1))
         /\ (i = 0 \/ IsNull(At(out, i - 1).eom) \/ IsNull(At(out, i - 1).signal)) =>
              At(out, i).crossSignal = NoSignal

\* A series long enough for both lines, with periods of 2 or more: the first
\* eom value at index period, the first signal value at period + signal - 1.
EomNullPropagationWitness ==
  /\ pc = "eom"
  /\ args.period >= 2
  /\ args.signal >= 2
  /\ Len(out) > args.period + args.signal - 1
  /\ IsNull(At(out, args.period - 1).eom)
  /\ ~IsNull(At(out, args.period).eom)
  /\ IsNull(At(out, args.period + args.signal - 2).signal)
  /\ ~IsNull(At(out, args.period + args.signal - 1).signal)
  /\ At(out, args.period + args.signal - 1).crossSignal = NoSignal
  /\ At(out, args.period + args.signal - 1).signal # Zero

(* ------------------------------------------------------------------ *)
(* Properties of the correlation (SpecPearson, SpecCorr)              *)
(* ------------------------------------------------------------------ *)

\* A result that is a number: a double, not null.
IsNumber(x) == x.s \in {0, 1}

\* The returns of two series on their common dates, as _pearson reads them.
ratesOver(mA, mB, dates) ==
  [n |-> Len(dates), xs |-> ratesOn(mA, dates), ys |-> ratesOn(mB, dates)]

commonRatesOf(mA, mB) == ratesOver(mA, mB, commonDates(mA, mB))

CommonRates(candlesA, candlesB) == commonRatesOf(rateMap(candlesA), rateMap(candlesB))

\* The values of xs have variance 0: they are all the same.
ZeroVariance(xs) == \A i \in 1..Len(xs), j \in 1..Len(xs) : xs[i] = xs[j]

DefinedAsClaimed(common, res) ==
  /\ common.n < MinCommonDates => res = NoNumber
  /\ (common.n >= MinCommonDates /\ (ZeroVariance(common.xs) \/ ZeroVariance(common.ys))) =>
       res = NoNumber
  /\ (common.n >= MinCommonDates /\ ~ZeroVariance(common.xs) /\ ~ZeroVariance(common.ys)) =>
       IsNumber(res)

\* C13. Pearson definedness: _pearson(A, B) is null when the return maps of
\* A and B share fewer than 5 dates, null when the returns of either series
\* over the common dates have zero variance, and a number in every other case.
PearsonDefinedness ==
  pc = "_pearson" =>
    DefinedAsClaimed(CommonRates(watchData[args.a], watchData[args.b]), out)

\* -1 <= r <= 1
InUnitRange(r) == FLe(FNeg(FInt(1)), r) /\ FLe(r, FInt(1))

\* C14. Pearson bounds and symmetry: _pearson(A, B) is null or a value in
\* [-1, 1], and equals _pearson(B, A) (both null together).
PearsonBoundsSymmetry ==
  pc = "_pearson" =>
    /\ out = NoNumber \/ InUnitRange(out)
    /\ out = _pearson(watchData[args.b], watchData[args.a])

\* The symmetry alone.
PearsonSymmetry ==
  pc = "_pearson" => out = _pearson(watchData[args.b], watchData[args.a])

\* The null cases that hold: fewer than 5 common dates, or returns that are
\* all 0 in one of the series.
PearsonNullCases ==
  pc = "_pearson" =>
    /\ CommonRates(watchData[args.a], watchData[args.b]).n < MinCommonDates => out = NoNumber
    /\ (args.a = "FLAT" \/ args.b = "FLAT") => out = NoNumber

(* ------------------------------------------------------------------ *)
(* Properties of _calcCorrelations (SpecCorr)                         *)
(* ------------------------------------------------------------------ *)

\* The peers of the target: the other stocks of the active tab.
PeersOf(stocks, targetCode) == {stocks[j] : j \in 1..Len(stocks)} \ {targetCode}

\* The correlation of the target with each of its peers (none for a peer
\* with no candles).
PeerCorrelations(data, peers, targetCode) ==
  [c \in peers |-> IF Len(data[c]) = 0 THEN NoNumber
                   ELSE _pearson(data[targetCode], data[c])]

\* The peers with a defined correlation.
RankedPeers(rs) == {c \in DOMAIN rs : rs[c] # NoNumber}

\* x is a ranked peer of pool, held with its correlation.
PickedFrom(x, pool, rs) == x.code \in pool /\ x.r = rs[x.code]

\* The pool the neutral pick is made from.
NeutralPool(ranked, res) ==
  IF ranked \ {res.pos.code, res.neg.code} # {}
  THEN ranked \ {res.pos.code, res.neg.code}
  ELSE ranked

RankingOver(rs, ranked, res) ==
  /\ PickedFrom(res.pos, ranked, rs)
  /\ \A c \in ranked : FLe(rs[c], res.pos.r)
  /\ PickedFrom(res.neg, ranked, rs)
  /\ \A c \in ranked : FLe(res.neg.r, rs[c])
  /\ PickedFrom(res.neu, NeutralPool(ranked, res), rs)
  /\ \A c \in NeutralPool(ranked, res) : FLe(FAbs(res.neu.r), FAbs(rs[c]))
  /\ Cardinality(ranked) = 1 => res.pos = res.neu /\ res.neu = res.neg

RankingHolds(rs, res) ==
  /\ res = NoRanking <=> RankedPeers(rs) = {}
  /\ res # NoRanking => RankingOver(rs, RankedPeers(rs), res)

\* C15. Correlation ranking: the result is null iff no peer of the active tab
\* has a defined correlation with the target; otherwise pos is a peer with
\* maximal r, neg a peer with minimal r, and neu the peer with the smallest
\* |r| among the peers other than pos and neg when there are such peers, else
\* among all ranked peers (with one ranked peer pos = neu = neg).
CorrelationRanking ==
  pc = "_calcCorrelations" =>
    RankingHolds(PeerCorrelations(watchData, PeersOf(tab, args.targetCode),
                                  args.targetCode), out)

\* Three ranked peers, of which the most positive or the most negative one is
\* the closest to zero of all, so that the neutral pick among the rest differs
\* from the pick among all.
CorrelationRankingWitness ==
  /\ pc = "_calcCorrelations"
  /\ out # NoRanking
  /\ Cardinality({out.pos.code, out.neu.code, out.neg.code}) = 3
  /\ FLt(FAbs(out.pos.r), FAbs(out.neu.r)) \/ FLt(FAbs(out.neg.r), FAbs(out.neu.r))

(* ------------------------------------------------------------------ *)
(* Short series and missing history (Spec)                            *)
(* ------------------------------------------------------------------ *)

\* The numeric indicator slots of a record of analyzeAll.
NumberSlots(r) ==
  <<r.bbUpper, r.bbMiddle, r.bbLower, r.eom, r.eomSignal, r.rsi, r.slowK, r.slowD>>

\* The first index of the full series at which each of these slots has the
\* history its rolling window needs.
FirstIndexOf ==
  <<DefaultBBPeriod - 1, DefaultBBPeriod - 1, DefaultBBPeriod - 1,
    EomPeriod, EomPeriod + EomSignalPeriod - 1,
    RsiPeriod, StochK1 + StochK2 - 2, StochK1 + StochK2 + StochD - 3>>

NullOrFinite(x) == x = Null \/ Finite(x)

\* The slots of the record r of index bi of the full series.
SlotsDegrade(r, bi) ==
  /\ \A k \in 1..Len(NumberSlots(r)) :
       /\ NullOrFinite(NumberSlots(r)[k])
       /\ bi < FirstIndexOf[k] => NumberSlots(r)[k] = Null
  /\ r.eomCross \in {NoSignal, "BUY", "SELL"}
  /\ r.rsiStSignal \in {NoSignal, "BUY", "SELL"}
  /\ bi < EomPeriod + EomSignalPeriod - 1 => r.eomCross = NoSignal
  /\ bi < StochK1 + StochK2 + StochD - 3 => r.rsiStSignal = NoSignal

Min2(a, b) == IF a <= b THEN a ELSE b

\* C16. Graceful degradation of the facade: for every series, of length 0
\* and 1 too, analyzeAll returns a record for each candle on display, every
\* indicator slot of every record is null or a finite number, and a slot
\* whose rolling window lacks history is null.
GracefulDegradation ==
  pc = "analyzeAll" =>
    /\ Len(out.candlesWithBB) = Min2(Len(candles), args.candleCount)
    /\ \A i \in Indices(out.candlesWithBB) :
         SlotsDegrade(At(out.candlesWithBB, i),
                      Len(candles) - Len(out.candlesWithBB) + i)
    /\ Len(closes) < 2 => out.bb = Null /\ out.alert.ratio = Rat(1, 2)

\* A series of one bar has been analysed: its only record has no indicator.
GracefulDegradationWitness ==
  /\ pc = "analyzeAll"
  /\ Len(candles) = 1
  /\ Len(out.candlesWithBB) = 1
  /\ \A k \in 1..Len(FirstIndexOf) : NumberSlots(At(out.candlesWithBB, 0))[k] = Null

\* The empty series has been analysed.
EmptySeriesAnalysed == pc = "analyzeAll" /\ Len(candles) = 0 /\ out.candlesWithBB = <<>>

\* A long series has been analysed: its last record has a number in every slot.
EverySlotFilled ==
  /\ pc = "analyzeAll"
  /\ Len(out.candlesWithBB) > 0
  /\ \A k \in 1..Len(FirstIndexOf) :
       Finite(NumberSlots(At(out.candlesWithBB, Len(out.candlesWithBB) - 1))[k])

(* ------------------------------------------------------------------ *)
(* The range of the alert ratio (SpecAlert)                           *)
(* ------------------------------------------------------------------ *)

\* The ratio a call of bbRatio or alertLevel returned.
RatioOf(call, res) == IF call = "bbRatio" THEN res ELSE res.ratio

RatioInRange(ratio, currentPrice, upper, lower) ==
  /\ Le(Zero, ratio) /\ Le(ratio, Num(1))
  /\ upper = lower => ratio = Rat(1, 2)
  /\ Lt(lower, upper) /\ Le(currentPrice, lower) => ratio = Zero
  /\ Lt(lower, upper) /\ Le(upper, currentPrice) => ratio = Num(1)

\* C17. Alert ratio range: the ratio returned by bbRatio / alertLevel is
\* within [0, 1] for every price and band, is 0.5 whenever upper = lower, and
\* when upper > lower is 0 for a price at or below lower and 1 for a price at
\* or above upper.
AlertRatioRange ==
  pc \in {"bbRatio", "alertLevel"} =>
    RatioInRange(RatioOf(pc, out), args.currentPrice, args.upper, args.lower)

\* A price above the upper band of a band of positive width: the position
\* (price - lower) / (upper - lower) is above 1 and the ratio returned is 1.
AlertRatioRangeWitness ==
  /\ pc = "alertLevel"
  /\ Lt(args.lower, args.upper)
  /\ Lt(args.upper, args.currentPrice)
  /\ out.ratio = Num(1)

\* A price below the lower band: the ratio returned is 0.
RatioBelowBand ==
  /\ pc = "bbRatio"
  /\ Lt(args.lower, args.upper)
  /\ Lt(args.currentPrice, args.lower)
  /\ out = Zero

\* A band of no width: the ratio returned is 0.5.
RatioOfFlatBand == pc = "bbRatio" /\ args.upper = args.lower /\ out = Rat(1, 2)

(* ------------------------------------------------------------------ *)
(* The facade called with parameters of the caller                    *)
(* ------------------------------------------------------------------ *)

\* The defaults of every indicator parameter.
DefaultOpts ==
  [bbPeriod |-> DefaultBBPeriod, mult |-> DefaultMult,
   eomPeriod |-> EomPeriod, eomSignal |-> EomSignalPeriod,
   rsiPeriod |-> RsiPeriod, k1 |-> StochK1, k2 |-> StochK2, d |-> StochD,
   ob |-> Overbought, os |-> Oversold]

\* The parameters a caller gives: the defaults, or the defaults with one
\* parameter changed.
CallerOpts ==
  {DefaultOpts,
   [DefaultOpts EXCEPT !.bbPeriod = 10],
   [DefaultOpts EXCEPT !.mult = 1],
   [DefaultOpts EXCEPT !.eomPeriod = 7],
   [DefaultOpts EXCEPT !.eomSignal = 7],
   [DefaultOpts EXCEPT !.rsiPeriod = 7],
   [DefaultOpts EXCEPT !.k1 = 7],
   [DefaultOpts EXCEPT !.k2 = 2],
   [DefaultOpts EXCEPT !.d = 2],
   [DefaultOpts EXCEPT !.ob = 70],
   [DefaultOpts EXCEPT !.os = 30]}

InitFacade ==
  /\ candles \in {Series(head, tail, MaxTotal) :
                    head \in SeqsOf(HeadCandles, 2, 2),
                    tail \in {t \in SeqsOf(TailCandles, 2, 2) : t[1] # t[2]}}
  /\ closes = closesOf(candles)
  /\ Idle
  /\ NoWatchList

\* Indicators.analyzeAll(stockData, bbPeriod, ...) with the parameters of the
\* caller: analyzeAll has the two parameters stockData and bbPeriod, and
\* JavaScript drops the arguments a function has no parameter for.
CallAnalyzeAll ==
  \E opts \in CallerOpts :
    /\ pc = "idle"
    /\ pc' = "analyzeAll"
    /\ args' = [candleCount |-> MaxTotal, bbPeriod |-> opts.bbPeriod, opts |-> opts]
    /\ out' = analyzeAll(stockDataOf(candles, closes, MaxTotal), opts.bbPeriod)
    /\ UNCHANGED <<closes, candles, shown, watchData, tab, appVars>>

NextFacade == CallAnalyzeAll

SpecFacade == InitFacade /\ [][NextFacade]_vars

\* The indicator values of every index when the engines are run with opts.
FullSeriesWith(opts) ==
  FullRows(bollingerBands(closes, opts.bbPeriod, Num(opts.mult)),
           eom(candles, opts.eomPeriod, opts.eomSignal),
           rsiStoch(closes, candles,
                    [rsiPeriod |-> opts.rsiPeriod, k1 |-> opts.k1, k2 |-> opts.k2,
                     d |-> opts.d, ob |-> opts.ob, os |-> opts.os]))

\* C18. Per-call parameter override: every indicator parameter of the facade
\* (Bollinger period and multiplier, EOM period and signal period, RSI period,
\* stochastic k1/k2/d, overbought/oversold thresholds) can be set per call,
\* and the engines are run with the values the caller gave.
ParameterOverride ==
  pc = "analyzeAll" => AlignedWith(FullSeriesWith(args.opts), out.candlesWithBB)

\* The Bollinger period of the caller is the one bollingerBands is run with,
\* and every other engine runs with its default.
OnlyBBPeriodOverride ==
  pc = "analyzeAll" =>
    AlignedWith(FullSeriesWith([DefaultOpts EXCEPT !.bbPeriod = args.bbPeriod]),
                out.candlesWithBB)

(* ------------------------------------------------------------------ *)
(* Calls of the core that follow one another                          *)
(* ------------------------------------------------------------------ *)

\* The three series the calls are made on.
InitCore ==
  /\ candles \in {Series(<<Candle(3, 1, 2, 1), Candle(6, 2, 3, 1)>>,
                         <<Candle(4, 2, 2, 1), Candle(2, 0, 2, 2)>>, MaxTotal),
                  Series(<<Candle(2, 0, 1, 2), Candle(6, 2, 3, 1)>>,
                         <<Candle(2, 0, 2, 2), Candle(4, 2, 2, 1)>>, MaxTotal),
                  Series(<<Candle(6, 2, 3, 1), Candle(2, 0, 1, 2)>>,
                         <<Candle(4, 2, 2, 1), Candle(2, 0, 2, 2)>>, MaxTotal)}
  /\ closes = closesOf(candles)
  /\ Idle
  /\ NoWatchList

\* The caller keeps the result of one earlier call, any of them: the one kept
\* so far, or the call made last.
keptNext ==
  IF pc = "idle" THEN {shown}
  ELSE {shown, <<[call |-> pc, args |-> args, out |-> out]>>}

\* The array of the previous call of the same function handed back in place
\* of the array this call built.
returnedReused(call, res) == IF pc = call THEN out ELSE res

\* What a call returns: the arrays it built (new Array(n).fill(null), map
\* and slice make a new array on every call).
returned(call, res) == res

\* A call of the function `call` with the parameters a, which builds res.
Called(call, a, res) ==
  /\ pc' = call
  /\ args' = a
  /\ out' = returned(call, res)
  /\ shown' \in keptNext
  /\ UNCHANGED <<closes, candles, watchData, tab, appVars>>

CoreBollingerBands ==
  Called("bollingerBands", [period |-> DefaultBBPeriod, mult |-> DefaultMult],
         bollingerBands(closes, DefaultBBPeriod, Num(DefaultMult)))

CoreEom ==
  Called("eom", [period |-> EomPeriod, signal |-> EomSignalPeriod],
         eom(candles, EomPeriod, EomSignalPeriod))

CoreRsi ==
  \E period \in {RsiPeriod, RsiPeriod + 1} :
    Called("rsi", [period |-> period], rsi(closes, period))

CoreStochastic ==
  Called("stochastic", [k1 |-> StochK1, k2 |-> StochK2, d |-> StochD],
         stochastic(candles, StochK1, StochK2, StochD))

CoreRsiStoch ==
  Called("rsiStoch", [rsiPeriod |-> RsiPeriod, k1 |-> StochK1, k2 |-> StochK2,
                      d |-> StochD, ob |-> Overbought, os |-> Oversold],
         rsiStoch(closes, candles,
                  [rsiPeriod |-> RsiPeriod, k1 |-> StochK1, k2 |-> StochK2,
                   d |-> StochD, ob |-> Overbought, os |-> Oversold]))

CoreAnalyzeAll ==
  \E bbPeriod \in {DefaultBBPeriod \div 2, DefaultBBPeriod} :
    Called("analyzeAll", [candleCount |-> DefaultBBPeriod, bbPeriod |-> bbPeriod],
           analyzeAll(stockDataOf(candles, closes, DefaultBBPeriod), bbPeriod))

NextCore ==
  \/ CoreBollingerBands
  \/ CoreEom
  \/ CoreRsi
  \/ CoreStochastic
  \/ CoreRsiStoch
  \/ CoreAnalyzeAll

SpecCore == InitCore /\ [][NextCore]_vars

AnalyzeAllRepeated ==
  /\ pc = "analyzeAll"
  /\ Len(shown) = 1
  /\ shown[1].call = "analyzeAll" /\ shown[1].args = args

(* ------------------------------------------------------------------ *)
(* Bands that collapse (SpecBands)                                    *)
(* ------------------------------------------------------------------ *)

\* The window of closes the band of index i is computed from.
BandWindow(i, period) == slice(closes, i - period + 1, i + 1)

AllEqual(w) == \A j \in 1..Len(w), k \in 1..Len(w) : w[j] = w[k]

Degenerate(b) == b.lower = b.middle \/ b.middle = b.upper

StrictlyOrdered(b) == Lt(b.lower, b.middle) /\ Lt(b.middle, b.upper)

DegenerateOnlyWhenFlat(b, w) ==
  /\ Degenerate(b) => AllEqual(w)
  /\ ~AllEqual(w) => StrictlyOrdered(b)

\* C20. Band degeneracy: whenever a non-null band of bollingerBands (with a
\* multiplier above 0) has lower = middle or middle = upper, the closes of its
\* window are all equal; a window with two different closes yields
\* lower < middle < upper after the rounding to 2 decimals.
BandDegeneracy ==
  pc = "bollingerBands" /\ args.mult > 0 =>
    \A i \in Indices(out) :
      ~AllNullBand(At(out, i)) =>
        DegenerateOnlyWhenFlat(At(out, i), BandWindow(i, args.period))

(* ------------------------------------------------------------------ *)
(* Tabs: adding and closing the tabs of the two stores                *)
(* ------------------------------------------------------------------ *)

Stores == {"Storage", "AnStorage"}

\* No uid (undefined, or the empty string the analysis store saves).
NoUid == 0

\* The uids a store ever hands out.
MaxTabs == 3

\* The addTab and removeTab calls of a behaviour.
MaxTabCalls == 3

Tab(uid) == [uid |-> uid, stocks |-> <<>>]

\* tabs.map(t => t.uid)
uidsOf(tabs) == Array([j \in 1..Len(tabs) |-> tabs[j].uid], Len(tabs))

uidSet(tabs) == {tabs[j].uid : j \in 1..Len(tabs)}

\* _tabs.filter(t => t.uid !== uid)
RECURSIVE tabsWithout(_, _)
tabsWithout(tabs, uid) ==
  IF Len(tabs) = 0 THEN <<>>
  ELSE IF tabs[1].uid = uid THEN tabsWithout(Tail(tabs), uid)
       ELSE <<tabs[1]>> \o tabsWithout(Tail(tabs), uid)

\* _tabs.findIndex(t => t.uid === uid): the 0-based index, -1 when absent.
findIndex(tabs, uid) ==
  IF uid \in uidSet(tabs)
  THEN (CHOOSE j \in 1..Len(tabs) :
          tabs[j].uid = uid /\ \A k \in 1..(j - 1) : tabs[k].uid # uid) - 1
  ELSE -1

\* _tabs.splice(idx, 1): the list after it (an index past the end removes
\* nothing).
spliceOne(tabs, idx) ==
  IF idx < Len(tabs) THEN SubSeq(tabs, 1, idx) \o SubSeq(tabs, idx + 2, Len(tabs))
  ELSE tabs

\* The uids splice(idx, 1) takes out.
splicedOut(tabs, idx) == IF idx < Len(tabs) THEN {tabs[idx + 1].uid} ELSE {}

\* _tabs[0]?.uid
firstUid(tabs) == IF Len(tabs) = 0 THEN NoUid ELSE tabs[1].uid

\* getActiveTabId of a store whose tabs are `tabs`.
getActiveTabId(active, tabs) == IF active # NoUid THEN active ELSE firstUid(tabs)

InitTabs ==
  /\ CoreIdleFor("tabs")
  /\ _tabs \in [Stores -> {Array([j \in 1..MaxTabs |-> Tab(j)], n) : n \in 1..MaxTabs}]
  /\ _activeTab \in [Stores -> 1..MaxTabs]
  /\ \A s \in Stores : _activeTab[s] \in uidSet(_tabs[s])
  /\ tabEls = [s \in Stores |-> uidsOf(_tabs[s])]
  /\ tabRows = [s \in Stores |-> uidSet(_tabs[s])]
  /\ tabCalls = {}

\* A call made now.
NewCall(store, op, uid, idx, at, gone) ==
  [n |-> Cardinality(tabCalls) + 1, store |-> store, op |-> op, uid |-> uid,
   idx |-> idx, at |-> at, gone |-> gone]

\* The calls with the call c moved on.
Moved(c, at, gone) == (tabCalls \ {c}) \cup {[c EXCEPT !.at = at, !.gone = gone]}

\* renderTabs / anRenderTabs of a store whose tabs are `tabs`.
Rendered(store, tabs) == [tabEls EXCEPT ![store] = uidsOf(tabs)]

\* The click on the close button of a tab of the watchlist, with more than
\* one tab held and the confirm accepted: Storage.removeTab takes the tab out
\* of _tabs and sends the DELETE.
ClickTabClose ==
  \E j \in 1..Len(tabEls["Storage"]) :
    /\ Cardinality(tabCalls) < MaxTabCalls
    /\ Len(_tabs["Storage"]) > 1
    /\ _tabs' = [_tabs EXCEPT !["Storage"] = tabsWithout(@, tabEls["Storage"][j])]
    /\ tabCalls' = tabCalls \cup
         {NewCall("Storage", "removeTab", tabEls["Storage"][j], -1, "del",
                  uidSet(_tabs["Storage"]) \cap {tabEls["Storage"][j]})}
    /\ UNCHANGED <<_activeTab, tabEls, tabRows, exceptTabs>>

\* The same click on the analysis page: AnStorage.removeTab looks the index
\* of the tab up and sends the DELETE; a tab no longer held ends the call and
\* the tab bar is drawn again.
AnClickTabClose ==
  \E j \in 1..Len(tabEls["AnStorage"]) :
    /\ Cardinality(tabCalls) < MaxTabCalls
    /\ Len(_tabs["AnStorage"]) > 1
    /\ IF findIndex(_tabs["AnStorage"], tabEls["AnStorage"][j]) = -1
       THEN /\ tabCalls' = tabCalls \cup
                 {NewCall("AnStorage", "removeTab", tabEls["AnStorage"][j], -1, "done", {})}
            /\ tabEls' = Rendered("AnStorage", _tabs["AnStorage"])
       ELSE /\ tabCalls' = tabCalls \cup
                 {NewCall("AnStorage", "removeTab", tabEls["AnStorage"][j],
                          findIndex(_tabs["AnStorage"], tabEls["AnStorage"][j]), "del", {})}
            /\ tabEls' = tabEls
    /\ UNCHANGED <<_tabs, _activeTab, tabRows, exceptTabs>>

\* What follows the DELETE in both stores, on the tabs left: the first tab
\* is made active when the active one was removed (and the setting saved),
\* else the call ends and the tab bar is drawn again.
AfterDelete(c, tabs, gone) ==
  /\ _tabs' = [_tabs EXCEPT ![c.store] = tabs]
  /\ IF getActiveTabId(_activeTab[c.store], tabs) = c.uid
     THEN /\ _activeTab' = [_activeTab EXCEPT ![c.store] = firstUid(tabs)]
          /\ tabCalls' = Moved(c, "save", gone)
          /\ tabEls' = tabEls
     ELSE /\ _activeTab' = _activeTab
          /\ tabCalls' = Moved(c, "done", gone)
          /\ tabEls' = Rendered(c.store, tabs)

\* The server answers the DELETE of Storage.removeTab (a failure is caught).
DeleteResponds ==
  \E c \in tabCalls, ok \in BOOLEAN :
    /\ c.store = "Storage" /\ c.op = "removeTab" /\ c.at = "del"
    /\ tabRows' = IF ok THEN [tabRows EXCEPT ![c.store] = @ \ {c.uid}] ELSE tabRows
    /\ AfterDelete(c, _tabs[c.store], c.gone)
    /\ UNCHANGED exceptTabs

\* The server answers the DELETE of AnStorage.removeTab (a failure is
\* caught): the entry at the index looked up before the DELETE is spliced out.
AnDeleteResponds ==
  \E c \in tabCalls, ok \in BOOLEAN :
    /\ c.store = "AnStorage" /\ c.op = "removeTab" /\ c.at = "del"
    /\ tabRows' = IF ok THEN [tabRows EXCEPT ![c.store] = @ \ {c.uid}] ELSE tabRows
    /\ AfterDelete(c, spliceOne(_tabs[c.store], c.idx), splicedOut(_tabs[c.store], c.idx))
    /\ UNCHANGED exceptTabs

\* The click on the add button of a store: addTab posts the new tab.
ClickAddTab ==
  \E store \in Stores, uid \in 1..MaxTabs :
    /\ Cardinality(tabCalls) < MaxTabCalls
    /\ uid \notin uidSet(_tabs[store]) \cup tabRows[store] \cup
                  {c.uid : c \in {d \in tabCalls : d.store = store}}
    /\ \A v \in 1..(uid - 1) :
         v \in uidSet(_tabs[store]) \cup tabRows[store] \cup
               {c.uid : c \in {d \in tabCalls : d.store = store}}
    /\ tabCalls' = tabCalls \cup {NewCall(store, "addTab", uid, -1, "post", {})}
    /\ UNCHANGED <<_tabs, _activeTab, tabEls, tabRows, exceptTabs>>

\* The server answers the POST of addTab: the tab is pushed and made active
\* (and the setting saved); a failure is thrown to the click handler.
PostResponds ==
  \E c \in tabCalls, ok \in BOOLEAN :
    /\ c.op = "addTab" /\ c.at = "post"
    /\ IF ok
       THEN /\ tabRows' = [tabRows EXCEPT ![c.store] = @ \cup {c.uid}]
            /\ _tabs' = [_tabs EXCEPT ![c.store] = Append(@, Tab(c.uid))]
            /\ _activeTab' = [_activeTab EXCEPT ![c.store] = c.uid]
            /\ tabCalls' = Moved(c, "save", c.gone)
       ELSE /\ tabCalls' = Moved(c, "failed", c.gone)
            /\ UNCHANGED <<tabRows, _tabs, _activeTab>>
    /\ UNCHANGED <<tabEls, exceptTabs>>

\* The active tab setting is saved: the call ends and its click handler
\* draws the tab bar again.
SettingSaved ==
  \E c \in tabCalls :
    /\ c.at = "save"
    /\ tabCalls' = Moved(c, "done", c.gone)
    /\ tabEls' = Rendered(c.store, _tabs[c.store])
    /\ UNCHANGED <<_tabs, _activeTab, tabRows, exceptTabs>>

NextTabs ==
  \/ ClickTabClose
  \/ AnClickTabClose
  \/ DeleteResponds
  \/ AnDeleteResponds
  \/ ClickAddTab
  \/ PostResponds
  \/ SettingSaved

SpecTabs == InitTabs /\ [][NextTabs]_vars

\* C21. The last tab cannot be deleted: under any interleaving of tab-close
\* handlers with each other and with other tab operations, both the watchlist
\* store (Storage) and the analysis store (AnStorage) always hold at least one
\* tab.
LastTabStays == \A s \in Stores : Len(_tabs[s]) >= 1

\* The watchlist store alone always holds a tab.
StorageLastTabStays == Len(_tabs["Storage"]) >= 1

\* The removeTab calls that have completed.
RemovalsDone(store) ==
  {c \in tabCalls : c.store = store /\ c.op = "removeTab" /\ c.at = "done"}

RemovedOnlyTarget(store) ==
  \A c \in RemovalsDone(store) :
    /\ c.gone \subseteq {c.uid}
    /\ c.uid \notin uidSet(_tabs[store])

\* C27. removeTab removes only its target: under any interleaving of
\* concurrent AnStorage.removeTab / Storage.removeTab calls, each completed
\* removeTab(uid) has removed from the in-memory tab list the tab whose uid
\* was passed and no other tab.
RemoveTabTarget == \A s \in Stores : RemovedOnlyTarget(s)

\* The same for the watchlist store alone.
StorageRemoveTabTarget == RemovedOnlyTarget("Storage")

(* ------------------------------------------------------------------ *)
(* Settings: loading, cleaning and saving one setting key             *)
(* ------------------------------------------------------------------ *)

\* The clients that share the server.
MaxClients == 2

Clients == 1..MaxClients

\* The rows of the key the server holds when the clients start.
MaxStartRows == 2

\* The _saveSetting calls of a behaviour.
MaxSaves == 2

\* The values of the setting.
SettingValues == {"1d", "1wk"}

\* No entry of the key in the cache.
NoSetting == [held |-> FALSE, uid |-> NoUid, value |-> ""]

\* _settings[key] = { uid, value }
Setting(uid, value) == [held |-> TRUE, uid |-> uid, value |-> value]

\* What rows.forEach of _loadSettings leaves in the cache: the last row.
cachedFrom(rows) ==
  IF Len(rows) = 0 THEN NoSetting ELSE Setting(rows[Len(rows)].id, rows[Len(rows)].value)

\* toDelete of _cleanDuplicateSettings: the ids of every row but the first.
toDeleteOf(rows) == Array([j \in 1..(Len(rows) - 1) |-> rows[j + 1].id], Len(rows) - 1)

rowIds(rows) == {rows[j].id : j \in 1..Len(rows)}

\* The table without the row id.
RECURSIVE rowsWithout(_, _)
rowsWithout(rows, id) ==
  IF Len(rows) = 0 THEN <<>>
  ELSE IF rows[1].id = id THEN rowsWithout(Tail(rows), id)
       ELSE <<rows[1]>> \o rowsWithout(Tail(rows), id)

\* The table after PATCH of the row id with value.
rowsPatched(rows, id, value) ==
  Array([j \in 1..Len(rows) |->
           IF rows[j].id = id THEN [rows[j] EXCEPT !.value = value] ELSE rows[j]],
        Len(rows))

SettingCall(client, op, at, value, uid, todo, saw) ==
  [n |-> Cardinality(settingCalls) + 1, client |-> client, op |-> op, at |-> at,
   value |-> value, uid |-> uid, todo |-> todo, saw |-> saw]

InitSettings ==
  /\ CoreIdleFor("settings")
  /\ \E k \in 0..MaxStartRows :
       /\ bb_settings = Array([j \in 1..MaxStartRows |-> [id |-> j, value |-> "1d"]], k)
       /\ lastRowId = k
  /\ _settings = [c \in Clients |-> NoSetting]
  /\ settingCalls = {}

\* The client has loaded its settings (Storage.init has run _loadSettings).
Loaded(c) == \E d \in settingCalls : d.client = c /\ d.op = "_loadSettings" /\ d.at = "done"

\* The _cleanDuplicateSettings call _loadSettings leaves running over the
\* rows it read (none when there is nothing to delete).
cleaning(c, rows, n) ==
  IF Len(rows) > 1
  THEN {[n |-> n, client |-> c, op |-> "_cleanDuplicateSettings", at |-> "del",
         value |-> "", uid |-> NoUid, todo |-> toDeleteOf(rows), saw |-> Len(rows)]}
  ELSE {}

\* Storage.init of a client: _loadSettings reads the table (rows = [] when the
\* GET fails), fills the cache and starts the cleaning.
LoadSettings ==
  \E c \in Clients, ok \in BOOLEAN :
    /\ ~Loaded(c)
    /\ _settings' = [_settings EXCEPT ![c] = cachedFrom(IF ok THEN bb_settings ELSE <<>>)]
    /\ settingCalls' = settingCalls
         \cup {SettingCall(c, "_loadSettings", "done", "", NoUid, <<>>,
                           IF ok THEN Len(bb_settings) ELSE 0)}
         \cup cleaning(c, IF ok THEN bb_settings ELSE <<>>, Cardinality(settingCalls) + 2)
    /\ UNCHANGED <<bb_settings, lastRowId, exceptSettings>>

\* One DELETE of the cleaning answers (a failure is caught).
CleanDuplicate ==
  \E d \in settingCalls, ok \in BOOLEAN :
    /\ d.op = "_cleanDuplicateSettings" /\ d.at = "del"
    /\ bb_settings' = IF ok THEN rowsWithout(bb_settings, d.todo[1]) ELSE bb_settings
    /\ settingCalls' = (settingCalls \ {d}) \cup
         {[d EXCEPT !.todo = Tail(d.todo),
                    !.at = IF Len(d.todo) = 1 THEN "done" ELSE "del"]}
    /\ UNCHANGED <<_settings, lastRowId, exceptSettings>>

SavesMade == Cardinality({d \in settingCalls : d.op = "_saveSetting"})

\* _saveSetting(key, value) of a client up to its first await: PATCH of the
\* cached row, or POST when the cache holds no row id.
SaveSetting ==
  \E c \in Clients, value \in SettingValues :
    /\ Loaded(c)
    /\ SavesMade < MaxSaves
    /\ settingCalls' = settingCalls \cup
         {SettingCall(c, "_saveSetting",
                      IF _settings[c].uid # NoUid THEN "patch" ELSE "post",
                      value, _settings[c].uid, <<>>, 0)}
    /\ UNCHANGED <<bb_settings, _settings, lastRowId, exceptSettings>>

\* The PATCH of the call d succeeds: the row is on the server and the cache
\* still holds an entry to write the value to.
Patched(d, ok) == ok /\ d.uid \in rowIds(bb_settings) /\ _settings[d.client].held

\* The first PATCH answers: done, or the cache is loaded again.
PatchResponds ==
  \E d \in settingCalls, ok \in BOOLEAN :
    /\ d.op = "_saveSetting" /\ d.at = "patch"
    /\ bb_settings' = IF ok THEN rowsPatched(bb_settings, d.uid, d.value) ELSE bb_settings
    /\ IF Patched(d, ok)
       THEN /\ _settings' = [_settings EXCEPT ![d.client].value = d.value]
            /\ settingCalls' = (settingCalls \ {d}) \cup {[d EXCEPT !.at = "done"]}
       ELSE /\ _settings' = _settings
            /\ settingCalls' = (settingCalls \ {d}) \cup {[d EXCEPT !.at = "reload"]}
    /\ UNCHANGED <<lastRowId, exceptSettings>>

\* The _loadSettings of the catch block answers: the cache is rebuilt, the
\* cleaning started, and the call goes on with a PATCH or a POST.
ReloadResponds ==
  \E d \in settingCalls, ok \in BOOLEAN :
    /\ d.op = "_saveSetting" /\ d.at = "reload"
    /\ _settings' = [_settings EXCEPT ![d.client] = cachedFrom(IF ok THEN bb_settings ELSE <<>>)]
    /\ settingCalls' = ((settingCalls \ {d})
         \cup {[d EXCEPT !.at = IF _settings'[d.client].uid # NoUid THEN "repatch" ELSE "post",
                         !.uid = _settings'[d.client].uid]})
         \cup cleaning(d.client, IF ok THEN bb_settings ELSE <<>>, Cardinality(settingCalls) + 1)
    /\ UNCHANGED <<bb_settings, lastRowId, exceptSettings>>

\* The second PATCH answers: the call ends either way.
RepatchResponds ==
  \E d \in settingCalls, ok \in BOOLEAN :
    /\ d.op = "_saveSetting" /\ d.at = "repatch"
    /\ bb_settings' = IF ok THEN rowsPatched(bb_settings, d.uid, d.value) ELSE bb_settings
    /\ _settings' = IF Patched(d, ok) THEN [_settings EXCEPT ![d.client].value = d.value]
                    ELSE _settings
    /\ settingCalls' = (settingCalls \ {d}) \cup {[d EXCEPT !.at = "done"]}
    /\ UNCHANGED <<lastRowId, exceptSettings>>

\* The POST answers: the new row is cached, or an entry with no row id.
PostSettingResponds ==
  \E d \in settingCalls, ok \in BOOLEAN :
    /\ d.op = "_saveSetting" /\ d.at = "post"
    /\ IF ok
       THEN /\ lastRowId' = lastRowId + 1
            /\ bb_settings' = Append(bb_settings, [id |-> lastRowId + 1, value |-> d.value])
            /\ _settings' = [_settings EXCEPT ![d.client] = Setting(lastRowId + 1, d.value)]
       ELSE /\ _settings' = [_settings EXCEPT ![d.client] = Setting(NoUid, d.value)]
            /\ UNCHANGED <<lastRowId, bb_settings>>
    /\ settingCalls' = (settingCalls \ {d}) \cup {[d EXCEPT !.at = "done"]}
    /\ UNCHANGED exceptSettings

NextSettings ==
  \/ LoadSettings
  \/ CleanDuplicate
  \/ SaveSetting
  \/ PatchResponds
  \/ ReloadResponds
  \/ RepatchResponds
  \/ PostSettingResponds

SpecSettings == InitSettings /\ [][NextSettings]_vars

AtMostOneRow == Len(bb_settings) <= 1

\* C22. Setting upsert creates no duplicates: under any interleaving of
\* _saveSetting calls for the same key, by one client or by several clients
\* sharing the server, a table that holds at most one row for the key still
\* holds at most one row after every step.
UpsertNoDuplicates == [][AtMostOneRow => AtMostOneRow']_vars

\* The client has loaded a table with several rows of the key and the
\* cleaning that load started has finished; no setting was saved since.
LoadedAndCleaned(c) ==
  /\ SavesMade = 0
  /\ \E d \in settingCalls :
       d.client = c /\ d.op = "_loadSettings" /\ d.at = "done" /\ d.saw > 1
  /\ \E d \in settingCalls :
       d.client = c /\ d.op = "_cleanDuplicateSettings" /\ d.at = "done"
  /\ \A d \in settingCalls : d.at = "done"

\* C29. Settings cache matches the surviving row: when the server holds
\* several rows for one key, after _loadSettings and its background
\* _cleanDuplicateSettings have both finished, the row id cached for the key is
\* the id of the one row of the key still on the server.
CacheMatchesSurvivor ==
  \A c \in Clients :
    LoadedAndCleaned(c) /\ Len(bb_settings) = 1 => _settings[c].uid = bb_settings[1].id

(* ------------------------------------------------------------------ *)
(* fetchStock of the proxy-racing API: attempts and retries           *)
(* ------------------------------------------------------------------ *)

MAX_RETRY == 2

\* YF_HOSTS and the proxies _raceAll asks for each host.
NumHosts == 2

NumProxies == 3

\* The requests of one _raceAll: resolveMarkets and the forceMarket branch
\* both give one candidate, asked through every proxy for every host.
Tasks == 1..(NumHosts * NumProxies)

\* How a proxy request ends: with a response _validateSymbol accepts, with
\* the symbol_mismatch error of _validateSymbol, or with another error
\* (HTTP status, timeout, no_data, unparsable body).
TaskOutcomes == {"ok", "symbol_mismatch", "http"}

\* How _parse ends on an accepted response: with the stock data, with the
\* data_mismatch error, or with another error (a malformed result).
ParseOutcomes == {"ok", "data_mismatch", "type_error"}

AllPending == [t \in Tasks |-> "pending"]

\* The message of the error _raceAll throws when Promise.any rejects: the
\* AggregateError is caught and replaced.
raceAllMessage == "all_candidates_failed"

\* msg.includes('data_mismatch') || msg.includes('symbol_mismatch')
isDataError(msg) == msg \in {"data_mismatch", "symbol_mismatch"}

\* What went wrong in the attempt whose _raceAll rejected: every response was
\* of another symbol, or something else.
raceFailure ==
  IF \A t \in Tasks : tasks[t] = "symbol_mismatch" THEN "symbol_mismatch" ELSE "other"

Failure(kind, msg) == [kind |-> kind, msg |-> msg]

InitFetch == CoreIdleFor("fetch") /\ NoFetch

\* fetchStock(input, candleCount, interval, forceMarket) up to its first await.
CallFetchStock ==
  /\ fetchPc = "idle"
  /\ fetchPc' = "racing"
  /\ attempt' = 0
  /\ tasks' = AllPending
  /\ UNCHANGED <<failures, exceptFetch>>

\* One proxy request of the running _raceAll settles.
TaskSettles ==
  \E t \in Tasks, o \in TaskOutcomes :
    /\ fetchPc = "racing"
    /\ tasks[t] = "pending"
    /\ tasks' = [tasks EXCEPT ![t] = o]
    /\ UNCHANGED <<fetchPc, attempt, failures, exceptFetch>>

\* Promise.any resolves with a response that passed _validateSymbol.
RaceResolves ==
  /\ fetchPc = "racing"
  /\ \E t \in Tasks : tasks[t] = "ok"
  /\ fetchPc' = "parsing"
  /\ UNCHANGED <<attempt, tasks, failures, exceptFetch>>

\* The catch block of fetchStock on an error with the message msg: one more
\* attempt, or the error goes to the caller.
Caught(kind, msg) ==
  /\ failures' = Append(failures, Failure(kind, msg))
  /\ IF isDataError(msg) /\ attempt < MAX_RETRY
     THEN /\ attempt' = attempt + 1
          /\ fetchPc' = "racing"
          /\ tasks' = AllPending
     ELSE /\ fetchPc' = "thrown"
          /\ UNCHANGED <<attempt, tasks>>
  /\ UNCHANGED exceptFetch

\* Every proxy request has failed: Promise.any rejects, _raceAll has no
\* candidate left and throws its own error.
RaceRejects ==
  /\ fetchPc = "racing"
  /\ \A t \in Tasks : tasks[t] \notin {"pending", "ok"}
  /\ Caught(raceFailure, raceAllMessage)

\* _parse of the accepted response returns or throws.
Parse ==
  \E o \in ParseOutcomes :
    /\ fetchPc = "parsing"
    /\ IF o = "ok"
       THEN /\ fetchPc' = "returned"
            /\ UNCHANGED <<attempt, tasks, failures, exceptFetch>>
       ELSE Caught(o, o)

NextFetch ==
  \/ CallFetchStock
  \/ TaskSettles
  \/ RaceResolves
  \/ RaceRejects
  \/ Parse

SpecFetch == InitFetch /\ [][NextFetch]_vars

Contamination == {"data_mismatch", "symbol_mismatch"}

\* The attempts made so far.
AttemptsMade == IF fetchPc \in {"idle", "thrown"} THEN Len(failures) ELSE Len(failures) + 1

\* The policy with the kinds of failure in the set retried.
RetryPolicyOf(retried) ==
  /\ AttemptsMade <= MAX_RETRY + 1
  /\ \A i \in 1..Len(failures) :
       \/ i < AttemptsMade /\ failures[i].kind \in retried /\ i <= MAX_RETRY
       \/ /\ i = AttemptsMade /\ fetchPc = "thrown"
          /\ failures[i].kind \notin retried \/ i = MAX_RETRY + 1

\* C23. fetchStock retry policy: an attempt that fails with a data_mismatch or
\* with a symbol_mismatch is followed by another attempt, at most 2 times (3
\* attempts in all); any other failure, and a contamination failure of the
\* third attempt, goes to the caller with no further attempt.
RetryPolicy == RetryPolicyOf(Contamination)

\* The same policy with data_mismatch as the only failure retried.
RetryPolicyDataMismatch == RetryPolicyOf({"data_mismatch"})

(* ------------------------------------------------------------------ *)
(* fetchMultipleFast: a pool of workers over one queue                *)
(* ------------------------------------------------------------------ *)

\* The stocks of a call.
MaxStocks == 3

\* The concurrency of a call (a number of simultaneous requests, 5 when the
\* caller gives none).
MaxConcurrency == 3

StockCodes == <<"005930", "000660", "AAPL", "MSFT", "NVDA">>

\* results[i] = null
NullResult == "null"

\* The data fetchStock returns for a code.
dataOf(code) == code

\* A store that appends to the results in the order of completion.
storedInOrder(results, i, data) ==
  [j \in 1..Len(results) |->
     IF j = Cardinality({k \in 1..Len(results) : poolOutcomes[k] # "pending"}) + 1
     THEN data ELSE results[j]]

\* results[i] = data, with i counted from 0.
stored(results, i, data) == [results EXCEPT ![i + 1] = data]

Working(i) == [at |-> "fetchStock", i |-> i]

Finished == [at |-> "done", i |-> 0]

InitPool == CoreIdleFor("pool") /\ NoPool

\* fetchMultipleFast(stocks, ..., concurrency) up to its first await: with no
\* stock it returns []; otherwise Array.from runs each worker up to its first
\* await, where the worker has taken the next index and called fetchStock.
CallFetchMultipleFast ==
  \E n \in 0..MaxStocks, c \in 1..MaxConcurrency :
    /\ poolPc = "idle"
    /\ poolStocks' = slice(StockCodes, 0, n)
    /\ poolConcurrency' = c
    /\ poolResults' = Array([j \in 1..n |-> NullResult], n)
    /\ poolOutcomes' = Array([j \in 1..n |-> "pending"], n)
    /\ poolCompleted' = <<>>
    /\ IF n = 0
       THEN /\ poolPc' = "resolved"
            /\ poolIdx' = 0
            /\ poolWorkers' = <<>>
            /\ poolFetches' = <<>>
       ELSE /\ poolPc' = "running"
            /\ poolIdx' = Min2(c, n)
            /\ poolWorkers' = Array([w \in 1..Min2(c, n) |-> Working(w - 1)], Min2(c, n))
            /\ poolFetches' = Array([j \in 1..n |-> IF j <= Min2(c, n) THEN 1 ELSE 0], n)
    /\ UNCHANGED exceptPool

\* The fetchStock a worker awaits ends, with data or with an error; the worker
\* stores the outcome and takes the next index, if there is one.
FetchStockEnds ==
  \E w \in 1..Len(poolWorkers), ok \in BOOLEAN :
    /\ poolPc = "running"
    /\ poolWorkers[w].at = "fetchStock"
    /\ poolResults' = stored(poolResults, poolWorkers[w].i,
                             IF ok THEN dataOf(poolStocks[poolWorkers[w].i + 1]) ELSE NullResult)
    /\ poolOutcomes' = [poolOutcomes EXCEPT ![poolWorkers[w].i + 1] =
                          IF ok THEN dataOf(poolStocks[poolWorkers[w].i + 1]) ELSE NullResult]
    /\ poolCompleted' = Append(poolCompleted, poolWorkers[w].i)
    /\ IF poolIdx < Len(poolStocks)
       THEN /\ poolIdx' = poolIdx + 1
            /\ poolWorkers' = [poolWorkers EXCEPT ![w] = Working(poolIdx)]
            /\ poolFetches' = [poolFetches EXCEPT ![poolIdx + 1] = @ + 1]
       ELSE /\ poolWorkers' = [poolWorkers EXCEPT ![w] = Finished]
            /\ UNCHANGED <<poolIdx, poolFetches>>
    /\ UNCHANGED <<poolPc, poolStocks, poolConcurrency, exceptPool>>

\* Promise.all(workers) resolves and fetchMultipleFast returns results.
WorkersDone ==
  /\ poolPc = "running"
  /\ \A w \in 1..Len(poolWorkers) : poolWorkers[w].at = "done"
  /\ poolPc' = "resolved"
  /\ UNCHANGED <<poolStocks, poolConcurrency, poolIdx, poolResults, poolWorkers,
                 poolFetches, poolOutcomes, poolCompleted, exceptPool>>

\* The caller takes the results; the next call starts from a new closure.
Returned ==
  /\ poolPc = "resolved"
  /\ poolPc' = "idle"
  /\ poolStocks' = <<>> /\ poolConcurrency' = 0 /\ poolIdx' = 0
  /\ poolResults' = <<>> /\ poolWorkers' = <<>> /\ poolFetches' = <<>>
  /\ poolOutcomes' = <<>> /\ poolCompleted' = <<>>
  /\ UNCHANGED exceptPool

NextPool ==
  \/ CallFetchMultipleFast
  \/ FetchStockEnds
  \/ WorkersDone
  \/ Returned

SpecPool == InitPool /\ [][NextPool]_vars

InFlight == Cardinality({w \in 1..Len(poolWorkers) : poolWorkers[w].at = "fetchStock"})

\* C24. fetchMultipleFast worker pool: for n stocks at most
\* min(concurrency, n) fetchStock requests are in flight at any moment, and
\* when the returned promise resolves every index has been fetched exactly
\* once and results[i] is the outcome (data or null) of stocks[i], whatever
\* order the requests ended in.
WorkerPool ==
  /\ InFlight <= Min2(poolConcurrency, Len(poolStocks))
  /\ \A j \in 1..Len(poolFetches) : poolFetches[j] <= 1
  /\ poolPc = "resolved" =>
       /\ Len(poolResults) = Len(poolStocks)
       /\ \A j \in 1..Len(poolStocks) :
            /\ poolFetches[j] = 1
            /\ poolResults[j] = poolOutcomes[j]
            /\ poolResults[j] \in {NullResult, dataOf(poolStocks[j])}

\* A call over MaxStocks stocks with fewer workers than stocks has resolved,
\* its requests having ended out of the order of the indexes, some with data
\* and some with an error.
WorkerPoolWitness ==
  /\ poolPc = "resolved"
  /\ Len(poolStocks) = MaxStocks
  /\ poolConcurrency = 2
  /\ \E a, b \in 1..Len(poolCompleted) : a < b /\ poolCompleted[a] > poolCompleted[b]
  /\ \E j \in 1..MaxStocks : poolResults[j] = NullResult
  /\ \E j \in 1..MaxStocks : poolResults[j] # NullResult

(* ------------------------------------------------------------------ *)
(* moveStocks: from the active tab to another tab                     *)
(* ------------------------------------------------------------------ *)

\* The stocks of a tab.
MaxTabStocks == 3

\* The codes of a call.
MaxCodes == 2

MoveCodes == {"005930", "000660", "AAPL"}

MoveUids == {1, 2, 3}

\* A stock of a watchlist; the market of a stock may be missing.
Stock(code) ==
  [code |-> code, name |-> code,
   market |-> IF code = "005930" THEN "KS" ELSE IF code = "AAPL" THEN "US" ELSE ""]

\* Lists of distinct codes, and the codes argument (which may repeat a code).
RECURSIVE SeqsUpTo(_, _)
SeqsUpTo(S, n) ==
  IF n = 0 THEN {<<>>}
  ELSE SeqsUpTo(S, n - 1) \cup {Append(q, x) : q \in SeqsUpTo(S, n - 1), x \in S}

Distinct(q) == \A a, b \in 1..Len(q) : a # b => q[a] # q[b]

StockLists ==
  {Array([j \in 1..Len(q) |-> Stock(q[j])], Len(q)) :
     q \in {p \in SeqsUpTo(MoveCodes, MaxTabStocks) : Distinct(p)}}

codesOf(stocks) == {stocks[j].code : j \in 1..Len(stocks)}

\* s.market || 'KS'
marketOr(market) == IF market = "" THEN "KS" ELSE market

\* { code: s.code, name: s.name, market: s.market || 'KS' }
pushedCopy(s) == [code |-> s.code, name |-> s.name, market |-> marketOr(s.market)]

\* A filter that drops every stock of the tab.
dropsAll(s, set) == FALSE

\* The test of fromTab.stocks.filter: s => !set.has(s.code)
stays(s, set) == s.code \notin set

RECURSIVE stocksWithout(_, _)
stocksWithout(stocks, set) ==
  IF Len(stocks) = 0 THEN <<>>
  ELSE IF stays(stocks[1], set) THEN <<stocks[1]>> \o stocksWithout(Tail(stocks), set)
       ELSE stocksWithout(Tail(stocks), set)

\* The forEach of Storage.moveStocks over the stocks of the source tab.
RECURSIVE pushSelected(_, _, _)
pushSelected(fromStocks, set, toStocks) ==
  IF Len(fromStocks) = 0 THEN toStocks
  ELSE pushSelected(Tail(fromStocks), set,
         IF fromStocks[1].code \in set /\ fromStocks[1].code \notin codesOf(toStocks)
         THEN Append(toStocks, pushedCopy(fromStocks[1])) ELSE toStocks)

\* from.stocks.find(x => x.code === code)
findStock(stocks, code) ==
  stocks[CHOOSE j \in 1..Len(stocks) :
           stocks[j].code = code /\ \A k \in 1..(j - 1) : stocks[k].code # code]

\* The loop of AnStorage.moveStocks over the codes.
RECURSIVE pushCodes(_, _, _)
pushCodes(codes, fromStocks, toStocks) ==
  IF Len(codes) = 0 THEN toStocks
  ELSE pushCodes(Tail(codes), fromStocks,
         IF codes[1] \in codesOf(fromStocks) /\ codes[1] \notin codesOf(toStocks)
         THEN Append(toStocks, findStock(fromStocks, codes[1])) ELSE toStocks)

Range(q) == {q[j] : j \in 1..Len(q)}

Moved2(tabs, f, t, toStocks, set) ==
  [tabs |-> [tabs EXCEPT ![t].stocks = toStocks,
                         ![f].stocks = stocksWithout(tabs[f].stocks, set)],
   count |-> Len(toStocks) - Len(tabs[t].stocks)]

\* Storage.moveStocks(codes, toTabUid) up to its await.
moveStocks(tabs, active, codes, toTabUid) ==
  IF \/ findIndex(tabs, getActiveTabId(active, tabs)) = -1
     \/ findIndex(tabs, toTabUid) = -1
     \/ getActiveTabId(active, tabs) = toTabUid
  THEN [tabs |-> tabs, count |-> 0]
  ELSE Moved2(tabs, findIndex(tabs, getActiveTabId(active, tabs)) + 1,
              findIndex(tabs, toTabUid) + 1,
              pushSelected(tabs[findIndex(tabs, getActiveTabId(active, tabs)) + 1].stocks,
                           Range(codes), tabs[findIndex(tabs, toTabUid) + 1].stocks),
              Range(codes))

\* AnStorage.moveStocks(codes, toTabUid) up to its await.
anMoveStocks(tabs, active, codes, toTabUid) ==
  IF \/ findIndex(tabs, getActiveTabId(active, tabs)) = -1
     \/ findIndex(tabs, toTabUid) = -1
  THEN [tabs |-> tabs, count |-> 0]
  ELSE Moved2(tabs, findIndex(tabs, getActiveTabId(active, tabs)) + 1,
              findIndex(tabs, toTabUid) + 1,
              pushCodes(codes, tabs[findIndex(tabs, getActiveTabId(active, tabs)) + 1].stocks,
                        tabs[findIndex(tabs, toTabUid) + 1].stocks),
              Range(codes))

InitMove ==
  /\ CoreIdleFor("move")
  /\ movePc = "idle"
  /\ \E a, b \in StockLists :
       moveTabs = <<[uid |-> 1, stocks |-> a], [uid |-> 2, stocks |-> b],
                    [uid |-> 3, stocks |-> <<Stock("AAPL")>>]>>
  /\ moveActive \in {NoUid, 1, 2}
  /\ moveBefore = <<>>
  /\ moveCall = <<>>

MoveDone(store, codes, to, res) ==
  /\ movePc' = "moved"
  /\ moveBefore' = moveTabs
  /\ moveTabs' = res.tabs
  /\ moveCall' = [store |-> store, codes |-> codes, to |-> to, count |-> res.count]
  /\ UNCHANGED <<moveActive, exceptMove>>

CallMoveStocks ==
  \E codes \in SeqsUpTo(MoveCodes, MaxCodes), to \in MoveUids \cup {NoUid} :
    /\ movePc = "idle"
    /\ MoveDone("Storage", codes, to, moveStocks(moveTabs, moveActive, codes, to))

CallAnMoveStocks ==
  \E codes \in SeqsUpTo(MoveCodes, MaxCodes), to \in MoveUids \cup {NoUid} :
    /\ movePc = "idle"
    /\ MoveDone("AnStorage", codes, to, anMoveStocks(moveTabs, moveActive, codes, to))

NextMove ==
  \/ CallMoveStocks
  \/ CallAnMoveStocks

SpecMove == InitMove /\ [][NextMove]_vars

\* The call moved to an existing tab other than the active tab.
MovedToOther ==
  /\ movePc = "moved"
  /\ moveCall.to \in uidSet(moveBefore)
  /\ moveCall.to # getActiveTabId(moveActive, moveBefore)

Occurrences(stocks, code) == Cardinality({j \in 1..Len(stocks) : stocks[j].code = code})

NotSelected(stocks, set) == SelectSeq(stocks, LAMBDA s : s.code \notin set)

Conserved(from, to, from2, to2, set, count) ==
  /\ codesOf(from2) \cap set = {}
  /\ (set \cap codesOf(from)) \subseteq codesOf(to2)
  /\ \A c \in codesOf(to) : Occurrences(to2, c) = Occurrences(to, c)
  /\ from2 = NotSelected(from, set)
  /\ NotSelected(to2, set) = NotSelected(to, set)
  /\ SubSeq(to2, 1, Len(to)) = to
  /\ count = Len(to2) - Len(to)
  /\ count = Cardinality((set \cap codesOf(from)) \ codesOf(to))

\* C25. moveStocks conservation: after moveStocks(codes, to) with to an
\* existing tab other than the active tab, the active tab holds none of the
\* selected codes, the destination holds every selected code the active tab
\* held, no code the destination already held is added again, every stock not
\* selected is unchanged in both tabs (and the other tabs are untouched), and
\* the count returned is the number of stocks added to the destination.
MoveConservation ==
  MovedToOther =>
    /\ Conserved(moveBefore[findIndex(moveBefore, getActiveTabId(moveActive, moveBefore)) + 1].stocks,
                 moveBefore[findIndex(moveBefore, moveCall.to) + 1].stocks,
                 moveTabs[findIndex(moveBefore, getActiveTabId(moveActive, moveBefore)) + 1].stocks,
                 moveTabs[findIndex(moveBefore, moveCall.to) + 1].stocks,
                 Range(moveCall.codes), moveCall.count)
    /\ uidsOf(moveTabs) = uidsOf(moveBefore)
    /\ \A j \in 1..Len(moveBefore) :
         moveBefore[j].uid \notin {moveCall.to, getActiveTabId(moveActive, moveBefore)}
           => moveTabs[j] = moveBefore[j]

\* A move of two codes, one the destination held already and one it did not,
\* out of an active tab that keeps a stock.
MoveConservationWitness ==
  /\ MovedToOther
  /\ moveCall.count = 1
  /\ Cardinality(Range(moveCall.codes)) = 2
  /\ Range(moveCall.codes) \subseteq
       codesOf(moveBefore[findIndex(moveBefore, getActiveTabId(moveActive, moveBefore)) + 1].stocks)
  /\ Range(moveCall.codes) \cap codesOf(moveBefore[findIndex(moveBefore, moveCall.to) + 1].stocks) # {}
  /\ Len(moveTabs[findIndex(moveBefore, getActiveTabId(moveActive, moveBefore)) + 1].stocks) = 1

(* ------------------------------------------------------------------ *)
(* The interval buttons: lock, switch, unlock                         *)
(* ------------------------------------------------------------------ *)

\* The clicks of a behaviour.
MaxClicks == 3

\* btn.dataset.interval of the two buttons.
Intervals == {"1d", "1wk"}

\* How the POST of fetchBatch ends: with the results, with a rejected fetch,
\* with a status that is not ok, or with a body that is not JSON.
BatchOutcomes == {"ok", "network", "http", "parse"}

Btn(locked) == [disabled |-> locked, _switching |-> locked]

\* allBtns.forEach(b => { b.disabled = v; b._switching = v; })
allBtnsSet(locked) == [b \in Intervals |-> Btn(locked)]

\* A fetchBatch whose failure is rethrown to _intervalSwitch.
batchRethrown(o) == o = "ok"

\* fetchBatch returns an array to _intervalSwitch: the results, or one null
\* for each stock when the request failed (the catch block).
batchReturns(o) == TRUE

\* The preview is drawn from the batch (dataMap.has(previewCode)).
inDataMap(o) == previewCode = "listed" /\ o = "ok"

InitSwitch ==
  /\ CoreIdleFor("switch")
  /\ btns = allBtnsSet(FALSE)
  /\ previewInterval \in Intervals
  /\ listInterval = previewInterval
  /\ previewCode \in {"none", "listed", "searched"}
  /\ intervalUid \in BOOLEAN
  /\ clicks = 0
  /\ switchCalls = {}

SwitchCall(interval, at) ==
  [n |-> clicks + 1, interval |-> interval, at |-> at,
   saveFailed |-> FALSE, batch |-> "none", previewFailed |-> FALSE]

\* The click handler of an interval button up to its first await: nothing for
\* the button of the current interval or for a button that is switching;
\* otherwise the buttons are locked and Storage.setInterval is called.
ClickInterval ==
  \E b \in Intervals :
    /\ clicks < MaxClicks
    /\ clicks' = clicks + 1
    /\ IF previewInterval = b \/ btns[b]._switching
       THEN UNCHANGED <<btns, previewInterval, listInterval, switchCalls>>
       ELSE /\ btns' = allBtnsSet(TRUE)
            /\ previewInterval' = b
            /\ listInterval' = b
            /\ switchCalls' = {h \in switchCalls : h.at # "done"} \cup
                 {SwitchCall(b, IF intervalUid THEN "patch" ELSE "post")}
    /\ UNCHANGED <<previewCode, intervalUid, exceptSwitch>>

\* The first PATCH of _saveSetting answers: the handler goes on to
\* _intervalSwitch, or _saveSetting loads the settings again.
SavePatchResponds ==
  \E h \in switchCalls, ok \in BOOLEAN :
    /\ h.at = "patch"
    /\ switchCalls' = (switchCalls \ {h}) \cup
         {[h EXCEPT !.at = IF ok THEN "fetchBatch" ELSE "reload",
                    !.saveFailed = ~ok]}
    /\ UNCHANGED <<btns, previewInterval, listInterval, previewCode, intervalUid,
                   clicks, exceptSwitch>>

\* The _loadSettings of _saveSetting answers (its own failure is caught): the
\* cache holds a row id for the key again, or none.
SaveReloadResponds ==
  \E h \in switchCalls, uid \in BOOLEAN :
    /\ h.at = "reload"
    /\ intervalUid' = uid
    /\ switchCalls' = (switchCalls \ {h}) \cup
         {[h EXCEPT !.at = IF uid THEN "repatch" ELSE "post"]}
    /\ UNCHANGED <<btns, previewInterval, listInterval, previewCode, clicks, exceptSwitch>>

\* The second PATCH or the POST of _saveSetting answers; a failure is caught
\* and the handler goes on to _intervalSwitch, which calls fetchBatch.
SaveLastResponds ==
  \E h \in switchCalls, ok \in BOOLEAN :
    /\ h.at \in {"repatch", "post"}
    /\ intervalUid' = IF h.at = "post" THEN ok ELSE intervalUid
    /\ switchCalls' = (switchCalls \ {h}) \cup
         {[h EXCEPT !.at = "fetchBatch", !.saveFailed = h.saveFailed \/ ~ok]}
    /\ UNCHANGED <<btns, previewInterval, listInterval, previewCode, clicks, exceptSwitch>>

\* The request of fetchBatch ends. _intervalSwitch goes on with the array it
\* gets: it draws the preview from it, or fetches the preview stock alone, and
\* renders the list.
BatchResponds ==
  \E h \in switchCalls, o \in BatchOutcomes :
    /\ h.at = "fetchBatch"
    /\ IF ~batchReturns(o)
       THEN /\ switchCalls' = (switchCalls \ {h}) \cup
                 {[h EXCEPT !.at = "rejected", !.batch = o]}
            /\ UNCHANGED btns
       ELSE IF previewCode # "none" /\ ~inDataMap(o)
       THEN /\ switchCalls' = (switchCalls \ {h}) \cup
                 {[h EXCEPT !.at = "fetchStock", !.batch = o]}
            /\ UNCHANGED btns
       ELSE LET g == [h EXCEPT !.batch = o] IN
            /\ btns' = allBtnsSet(FALSE)
            /\ switchCalls' = (switchCalls \ {h}) \cup {[g EXCEPT !.at = "done"]}
    /\ UNCHANGED <<previewInterval, listInterval, previewCode, intervalUid, clicks,
                   exceptSwitch>>

\* The fetchStock of the preview ends; a failure is caught.
PreviewResponds ==
  \E h \in switchCalls, ok \in BOOLEAN :
    /\ h.at = "fetchStock"
    /\ btns' = allBtnsSet(FALSE)
    /\ switchCalls' = (switchCalls \ {h}) \cup
         {[h EXCEPT !.at = "done", !.previewFailed = ~ok]}
    /\ UNCHANGED <<previewInterval, listInterval, previewCode, intervalUid, clicks,
                   exceptSwitch>>

NextSwitch ==
  \/ ClickInterval
  \/ SavePatchResponds
  \/ SaveReloadResponds
  \/ SaveLastResponds
  \/ BatchResponds
  \/ PreviewResponds

SpecSwitch == InitSwitch /\ [][NextSwitch]_vars

\* Every request the handler awaits is answered or fails in the end, and the
\* event loop then runs the continuation.
SwitchFairness ==
  /\ WF_vars(SavePatchResponds)
  /\ WF_vars(SaveReloadResponds)
  /\ WF_vars(SaveLastResponds)
  /\ WF_vars(BatchResponds)
  /\ WF_vars(PreviewResponds)

SpecSwitchFair == SpecSwitch /\ SwitchFairness

ButtonsLocked == \E b \in Intervals : btns[b].disabled \/ btns[b]._switching

ButtonsUnlocked == \A b \in Intervals : ~btns[b].disabled /\ ~btns[b]._switching

Switching == {h \in switchCalls : h.at \notin {"done", "rejected"}}

\* While the buttons are locked no second switch starts: at most one handler
\* is under way, and a click made while the buttons are locked starts none.
OneSwitchAtATime ==
  /\ Cardinality(Switching) <= 1
  /\ Switching # {} => \A b \in Intervals : btns[b].disabled /\ btns[b]._switching

NoSwitchWhileLocked ==
  [][ButtonsLocked => {h.n : h \in switchCalls'} \subseteq {h.n : h \in switchCalls}]_vars

MaxRequests == 3

PreviewCodes == {"AAPL", "MSFT"}

\* AppState.previewCode = null
NoCode == "null"

\* The analysed data of a code.
analyzedOf(code) == [code |-> code]

NoData == [code |-> NoCode]

InitPreview ==
  /\ CoreIdleFor("preview")
  /\ preview = [code |-> NoCode, data |-> NoData]
  /\ previewCalls = {}
  /\ watched \in SUBSET PreviewCodes

PreviewCall(input, at) == [n |-> Cardinality(previewCalls) + 1, input |-> input, at |-> at]

\* doSearch(input) up to its await: previewCode is the input, fetchStock is
\* called.
DoSearch ==
  \E input \in PreviewCodes :
    /\ Cardinality(previewCalls) < MaxRequests
    /\ preview' = [preview EXCEPT !.code = input]
    /\ previewCalls' = previewCalls \cup {PreviewCall(input, "fetchStock")}
    /\ UNCHANGED <<watched, exceptPreview>>

\* showStockPreview(code): the data cached for a row is shown at once when
\* the preview and the list have the same interval (the background refresh
\* does not touch the preview); otherwise doSearch(code) is called.
ShowStockPreview ==
  \E code \in PreviewCodes :
    /\ Cardinality(previewCalls) < MaxRequests
    /\ IF code \in watched
       THEN /\ preview' = [code |-> code, data |-> analyzedOf(code)]
            /\ previewCalls' = previewCalls \cup {PreviewCall(code, "shown")}
       ELSE /\ preview' = [preview EXCEPT !.code = code]
            /\ previewCalls' = previewCalls \cup {PreviewCall(code, "fetchStock")}
    /\ UNCHANGED <<watched, exceptPreview>>

\* The fetchStock of a doSearch ends: the preview is set from the response, or
\* previewCode is cleared in the catch block.
SearchResponds ==
  \E h \in previewCalls, ok \in BOOLEAN :
    /\ h.at = "fetchStock"
    /\ preview' = IF ok THEN [code |-> h.input, data |-> analyzedOf(h.input)]
                  ELSE [preview EXCEPT !.code = NoCode]
    /\ previewCalls' = (previewCalls \ {h}) \cup
         {[h EXCEPT !.at = IF ok THEN "shown" ELSE "failed"]}
    /\ UNCHANGED <<watched, exceptPreview>>

NextPreview ==
  \/ DoSearch
  \/ ShowStockPreview
  \/ SearchResponds

SpecPreview == InitPreview /\ [][NextPreview]_vars

AllSettled == previewCalls # {} /\ \A h \in previewCalls : h.at # "fetchStock"

LatestCall == CHOOSE h \in previewCalls : \A g \in previewCalls : g.n <= h.n

\* C28. Preview shows the latest request: when doSearch / showStockPreview
\* requests overlap and their responses arrive in any order, once all have
\* settled previewCode and previewData are those of the request started last
\* (no code when that request failed), never those of an earlier request
\* whose response came late.
PreviewLatest ==
  AllSettled =>
    IF LatestCall.at = "shown"
    THEN preview.code = LatestCall.input /\ preview.data = analyzedOf(LatestCall.input)
    ELSE preview.code = NoCode

====
